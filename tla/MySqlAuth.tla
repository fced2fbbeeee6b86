------------------------------ MODULE MySqlAuth ------------------------------
(***************************************************************************)
(* How a MySQL session gets from the server's greeting to its first        *)
(* command (handle_mysql_protocol, phases 1 to 3, main.rs).  With          *)
(* auth.mode: passthrough the proxy relays the exchange between client and *)
(* server; with auth.mode: terminate it authenticates the client against   *)
(* its own credential and then itself to the server.  Either leg may be    *)
(* encrypted, which shifts the sequence numbers of that leg by one.        *)
(*                                                                         *)
(* Client and server are modelled from what the protocol lets them send:   *)
(* they are legal, silent at any point, and right or wrong about the       *)
(* credential.                                                             *)
(***************************************************************************)
EXTENDS MySqlCodec, Sequences

(* A definition named Step_Slip is Step with the slip made: it is no part of  *)
(* the specification, and shows which property would notice.                  *)

CONSTANTS
    Terminating,  \* the values of auth.mode = terminate to look at
    Plugins,      \* "native" and "sha2"
    MaxRounds,    \* round trips of authentication (20 in the code)
    MaxSwitches   \* bound: AuthSwitchRequests the server sends

ASSUME MySqlAuthAssumption ==
    /\ Terminating \subseteq BOOLEAN
    /\ Plugins \subseteq {"native", "sha2"}
    /\ {MaxRounds, MaxSwitches} \subseteq Nat

VARIABLES
    mode,      \* the configuration, and what the two credentials are worth
    phase,     \* where handle_mysql_protocol is
    cause,     \* why the session ended
    cCodec,    \* state of the client-facing decoder
    uCodec,    \* state of the upstream-facing decoder
    verified,  \* authenticate_client has accepted the client
    seq,       \* client_auth_seq: the client's last sequence number
    rounds,    \* round trips so far
    client,    \* the client: where it is, its last sequence number, its nonce
    server,    \* the server, likewise
    toProxy,   \* client -> proxy
    toClient,  \* proxy -> client
    toServer,  \* proxy -> server, with what waits for TLS on that leg
    toUs,      \* server -> proxy
    inOrder    \* neither end has met a sequence number out of order

codecs   == <<cCodec, uCodec>>
progress == <<phase, cause, verified, seq, rounds>>
authVars == <<mode, progress, codecs, client, server, toProxy, toClient,
              toServer, toUs, inOrder>>

\* from tells whose credential a packet proves; nonce, under whose challenge.
Packet(kind, n) ==
    [kind |-> kind, seq |-> n, from |-> "none", plugin |-> "none", nonce |-> "none"]
Challenge(kind, n, plugin, whose) ==
    [Packet(kind, n) EXCEPT !.plugin = plugin, !.nonce = whose]
Proof(kind, n, who, plugin, whose) ==
    [Packet(kind, n) EXCEPT !.from = who, !.plugin = plugin, !.nonce = whose]

Configurations ==
    [terminating : Terminating,  \* auth.mode
     clientTls   : BOOLEAN,      \* the client asks for TLS, and may
     upstreamTls : BOOLEAN,      \* upstream_tls
     pinned      : BOOLEAN,      \* auth.upstream_rsa_public_key
     plugin      : Plugins,      \* auth.client_auth_plugin
     greeting    : Plugins,      \* the plugin the server's greeting names
     clientGood  : BOOLEAN,      \* the client's password is right
     proxyGood   : BOOLEAN]      \* the proxy's own password is right

\* The proxy's credential and its plugin exist only when it terminates, and the
\* pinned key is looked at only without TLS.
Modes ==
    {m \in Configurations :
        /\ m.upstreamTls => ~m.pinned
        /\ ~m.terminating => ~m.pinned /\ m.proxyGood /\ m.plugin = m.greeting}

AuthInit ==
    /\ mode \in Modes
    /\ phase = "greeting"
    /\ cause = "none"
    /\ cCodec = At("WaitingHandshake")
    /\ uCodec = At("WaitingHandshake")
    /\ verified = FALSE
    /\ seq = 0
    /\ rounds = 0
    /\ client = [at |-> "start", seq |-> 0, nonce |-> "none"]
    /\ server = [at |-> "start", seq |-> 0, switches |-> 0]
    /\ toProxy = <<>> /\ toClient = <<>> /\ toServer = <<>> /\ toUs = <<>>
    /\ inOrder = TRUE

-----------------------------------------------------------------------------
(* The server *)

Greet ==
    /\ server.at = "start"
    /\ server' = [server EXCEPT !.at = "await"]
    /\ toUs' = <<Challenge("Greeting", 0, mode.greeting, "server")>>
    /\ UNCHANGED <<mode, progress, codecs, client, toProxy, toClient, toServer,
                   inOrder>>

\* The account a proof is for is the one of whoever made it.
Proven(p) == /\ p.from = "client" => mode.clientGood
             /\ p.from = "proxy"  => mode.proxyGood
             /\ p.nonce \in {"server", "none"}

\* What the server may answer a packet with.  A full password is accepted in the
\* clear on an encrypted connection only.
Verdict(p, n) == IF Proven(p) THEN <<Packet("Ok", n)>> ELSE <<Packet("Err", n)>>
ServerAnswers(p) ==
    LET n == p.seq + 1
    IN CASE p.kind = "SslRequest" -> {<<>>}
         [] p.kind = "KeyRequest" -> {<<Packet("Key", n)>>}
         [] p.kind = "Encrypted"  -> {Verdict(p, n)}
         [] p.kind = "Cleartext"  ->
              {IF mode.upstreamTls THEN Verdict(p, n) ELSE <<Packet("Err", n)>>}
         [] p.kind \in {"Response", "Scramble"} ->
              (IF server.switches < MaxSwitches
               THEN {<<Challenge("Switch", n, plugin, "server")>> :
                        plugin \in Plugins}
               ELSE {})
              \cup (IF p.plugin = "sha2"
                    THEN {<<Packet("Full", n)>>}
                         \cup IF Proven(p)
                              THEN {<<Packet("Fast", n), Packet("Ok", n + 1)>>}
                              ELSE {}
                    ELSE {Verdict(p, n)})

\* Numbers start afresh with the first command.  An SSLRequest is followed by the
\* handshake of TLS, and nothing is read until that is over.
Settled(at) == [at |-> at, seq |-> 0, switches |-> 0]

Serve ==
    /\ server.at = "await"
    /\ toServer # <<>>
    /\ toServer' = Tail(toServer)
    /\ LET p == Head(toServer)
       IN /\ inOrder' = (inOrder /\ p.seq = server.seq + 1)
          /\ \E answers \in ServerAnswers(p) :
                /\ toUs' = toUs \o answers
                /\ server' =
                     IF answers = <<>> THEN [server EXCEPT !.seq = p.seq, !.at = "tls"]
                     ELSE LET last == answers[Len(answers)]
                          IN CASE last.kind = "Ok"     -> Settled("accepted")
                               [] last.kind = "Err"    -> Settled("rejected")
                               [] last.kind = "Switch" ->
                                    [server EXCEPT !.seq = last.seq, !.switches = @ + 1]
                               [] OTHER -> [server EXCEPT !.seq = last.seq]
    /\ UNCHANGED <<mode, progress, codecs, client, toProxy, toClient>>

-----------------------------------------------------------------------------
(* The client *)

Hear(kind) ==
    /\ toClient # <<>>
    /\ Head(toClient).kind = kind
    /\ toClient' = Tail(toClient)
    /\ inOrder' = (inOrder /\ Head(toClient).seq = client.seq + 1)

\* It answers with its next sequence number.
Reply(p, at, nonce) ==
    /\ toProxy' = Append(toProxy, p)
    /\ client' = [at |-> at, seq |-> p.seq, nonce |-> nonce]

Unsent == UNCHANGED <<mode, progress, codecs, server, toServer, toUs>>

\* A client that connects with TLS sends its response once the handshake is done,
\* any other at once; it guesses a plugin.
MeetsProxy ==
    /\ client.at = "start"
    /\ toClient # <<>>
    /\ Head(toClient).kind = "Greeting"
    /\ toClient' = Tail(toClient)
    /\ LET nonce == Head(toClient).nonce
       IN IF mode.clientTls
          THEN Reply(Packet("SslRequest", 1), "tls", nonce)
          ELSE \E plugin \in Plugins :
                  Reply(Proof("Response", 1, "client", plugin, nonce), "await", nonce)
    /\ UNCHANGED inOrder
    /\ Unsent

RespondsOverTls ==
    /\ client.at = "tls"
    /\ phase = "tlsResponse"
    /\ \E plugin \in Plugins :
          Reply(Proof("Response", 2, "client", plugin, client.nonce), "await",
                client.nonce)
    /\ UNCHANGED <<toClient, inOrder>>
    /\ Unsent

Switches ==
    /\ Hear("Switch")
    /\ LET p == Head(toClient)
       IN Reply(Proof("Scramble", p.seq + 1, "client", p.plugin, p.nonce),
                "await", p.nonce)
    /\ Unsent

\* Full authentication: the password itself on an encrypted connection, else
\* under the server's public key, which a client may have to ask for.
SendsPassword ==
    /\ Hear("Full")
    /\ LET n == Head(toClient).seq + 1
       IN \/ /\ mode.clientTls
             /\ Reply(Proof("Cleartext", n, "client", "sha2", "none"), "await",
                      client.nonce)
          \/ /\ ~mode.clientTls
             /\ Reply(Packet("KeyRequest", n), "await", client.nonce)
          \/ /\ ~mode.clientTls
             /\ Reply(Proof("Encrypted", n, "client", "sha2", "none"), "await",
                      client.nonce)
    /\ Unsent

UsesKey ==
    /\ Hear("Key")
    /\ Reply(Proof("Encrypted", Head(toClient).seq + 1, "client", "sha2", "none"),
             "await", client.nonce)
    /\ Unsent

\* Fast authentication has succeeded; the OK is on its way.
Waits ==
    /\ Hear("Fast")
    /\ client' = [client EXCEPT !.seq = Head(toClient).seq]
    /\ UNCHANGED toProxy
    /\ Unsent

Learns(kind, at) ==
    /\ Hear(kind)
    /\ client' = [client EXCEPT !.at = at, !.seq = 0]
    /\ UNCHANGED toProxy
    /\ Unsent

ClientStep ==
    \/ MeetsProxy \/ RespondsOverTls \/ Switches \/ SendsPassword \/ UsesKey
    \/ Waits \/ Learns("Ok", "in") \/ Learns("Err", "failed")

-----------------------------------------------------------------------------
(* The proxy *)

Close(why) == phase' = "closed" /\ cause' = why

World == UNCHANGED <<mode, client, server, inOrder>>

TakeFromServer == toUs # <<>> /\ toUs' = Tail(toUs)
TakeFromClient == toProxy # <<>> /\ toProxy' = Tail(toProxy)

\* Phase 1: the server's greeting, with the proxy's own challenge and plugin in
\* place of the server's when it terminates authentication.
Greeting ==
    /\ phase = "greeting"
    /\ TakeFromServer
    /\ toClient' = IF mode.terminating
                   THEN <<Challenge("Greeting", 0, mode.plugin, "proxy")>>
                   ELSE <<Head(toUs)>>
    /\ cCodec' = At("WaitingHandshakeResponse")
    /\ uCodec' = Decode(uCodec, Head(toUs), FALSE).state
    /\ phase' = "response"
    /\ UNCHANGED <<cause, verified, seq, rounds, toProxy, toServer>>
    /\ World

\* Phase 2: the upgrade to TLS replaces the decoder ...
UpgradeClient ==
    /\ phase = "response"
    /\ TakeFromClient
    /\ Head(toProxy).kind = "SslRequest"
    /\ cCodec' = At("WaitingHandshakeResponse")
    /\ phase' = "tlsResponse"
    /\ UNCHANGED <<cause, verified, seq, rounds, uCodec, toClient, toServer, toUs>>
    /\ World

\* ... and the response is relayed, checked, or answered with a request to switch
\* to the proxy's plugin.  A response to the server comes after an SSLRequest of
\* the proxy when that leg is to be encrypted.
FirstUpstream_SameNumber(response) ==
    IF mode.upstreamTls
    THEN <<Packet("SslRequest", 1), [response EXCEPT !.seq = 1]>>
    ELSE <<[response EXCEPT !.seq = 1]>>
FirstUpstream(response) ==
    IF mode.upstreamTls
    THEN <<Packet("SslRequest", 1), [response EXCEPT !.seq = 2]>>
    ELSE <<[response EXCEPT !.seq = 1]>>

\* The upstream leg is encrypted before the response goes out.
Upstreaming(next) == IF mode.upstreamTls THEN "upstreamTls" ELSE next

\* The proxy's own response, with the plugin and the nonce of the server's greeting.
AuthenticateUpstream ==
    /\ toServer' =
         FirstUpstream(Proof("Response", 0, "proxy", mode.greeting, "server"))
    /\ uCodec' = At("WaitingAuthResponse")
    /\ phase' = Upstreaming("proving")

\* authenticate_client: one outcome for a wrong user and a wrong password.
Accepts(p) == mode.clientGood /\ p.nonce = "proxy" /\ p.plugin = mode.plugin

Verify_SendsFirst(p) ==
    /\ seq' = p.seq
    /\ AuthenticateUpstream
    /\ UNCHANGED <<cause, verified, toClient>>
Verify(p) ==
    /\ seq' = p.seq
    /\ \/ /\ Accepts(p)
          /\ verified' = TRUE
          /\ AuthenticateUpstream
          /\ UNCHANGED <<cause, toClient>>
       \/ /\ ~Accepts(p)
          /\ toClient' = Append(toClient, Packet("Err", p.seq + 1))
          /\ Close("refused")
          /\ UNCHANGED <<verified, uCodec, toServer>>

AskToSwitch(p) ==
    /\ toClient' = Append(toClient,
                          Challenge("Switch", p.seq + 1, mode.plugin, "proxy"))
    /\ cCodec' = At("WaitingAuthResponse")
    /\ phase' = "switch"
    /\ UNCHANGED <<cause, verified, seq, uCodec, toServer>>

Response ==
    /\ phase \in {"response", "tlsResponse"}
    /\ TakeFromClient
    /\ LET p == Head(toProxy)
       IN /\ p.kind = "Response"
          /\ \/ /\ ~mode.terminating
                /\ toServer' = FirstUpstream(p)
                /\ cCodec' = At("Command")
                /\ uCodec' = At("WaitingHandshakeResponse")
                /\ phase' = Upstreaming("relaying")
                /\ UNCHANGED <<cause, verified, seq, toClient>>
             \/ /\ mode.terminating
                /\ p.plugin = mode.plugin
                /\ cCodec' = At("Command")
                /\ Verify(p)
             \/ /\ mode.terminating
                /\ p.plugin # mode.plugin
                /\ AskToSwitch(p)
    /\ UNCHANGED <<rounds, toUs>>
    /\ World

SwitchReply ==
    /\ phase = "switch"
    /\ TakeFromClient
    /\ \E readAs \in ReplyReadAs(cCodec) :
          \/ /\ readAs = "Generic"
             /\ Verify(Head(toProxy))
          \/ /\ readAs # "Generic"
             /\ Close("broken off")
             /\ UNCHANGED <<verified, seq, uCodec, toClient, toServer>>
    /\ UNCHANGED <<rounds, cCodec, toUs>>
    /\ World

\* The handshake of TLS with the server is over.
UpstreamTls ==
    /\ phase = "upstreamTls"
    /\ server.at = "tls"
    /\ server' = [server EXCEPT !.at = "await"]
    /\ phase' = IF mode.terminating THEN "proving" ELSE "relaying"
    /\ UNCHANGED <<mode, cause, verified, seq, rounds, codecs, client, toProxy,
                   toClient, toServer, toUs, inOrder>>

\* Phase 3, terminating.  The client is told that it is in only now ...
Welcome(n) ==
    IF mode.plugin = "sha2"
    THEN <<Packet("Fast", n + 1), Packet("Ok", n + 2)>>
    ELSE <<Packet("Ok", n + 1)>>

\* ... or that the proxy, not it, was refused.
Fail(why) ==
    /\ toClient' = Append(toClient, Packet("Err", seq + 1))
    /\ Close(why)
    /\ UNCHANGED toServer

CommandPhase ==
    /\ phase' = "command"
    /\ cCodec' = At("Command")
    /\ uCodec' = At("Command")

\* The full password: in the clear over TLS, else under the pinned key, else not.
Password(n) ==
    IF mode.upstreamTls THEN {Proof("Cleartext", n, "proxy", "sha2", "none")}
    ELSE IF mode.pinned THEN {Proof("Encrypted", n, "proxy", "sha2", "none")}
    ELSE {}

\* What authenticate_upstream sends in reply to a packet that is not the verdict.
UpstreamReply(p) ==
    LET n == p.seq + 1
    IN CASE p.kind = "Switch" -> {<<Proof("Scramble", n, "proxy", p.plugin, p.nonce)>>}
         [] p.kind = "Full"   -> {<<q>> : q \in Password(n)}
         [] p.kind = "Fast"   -> {<<>>}
         [] OTHER             -> {}

\* The next packet is waited for only while there are round trips left.
\* The count is a local of the loop, which the server's OK leaves.
NextRound_OneMore ==
    /\ rounds <= MaxRounds
    /\ TakeFromServer
    /\ rounds' = IF Head(toUs).kind = "Ok" THEN 0 ELSE rounds + 1
NextRound ==
    /\ rounds < MaxRounds
    /\ TakeFromServer
    /\ rounds' = IF Head(toUs).kind = "Ok" THEN 0 ELSE rounds + 1

Prove ==
    /\ phase = "proving"
    /\ NextRound
    /\ LET p    == Head(toUs)
           read == Decode(uCodec, p, FALSE)
       IN \/ /\ read.kind = "Ok"
             /\ toClient' = toClient \o Welcome(seq)
             /\ CommandPhase
             /\ UNCHANGED <<cause, toServer>>
          \/ /\ read.kind = "Generic"
             /\ \E reply \in UpstreamReply(p) : toServer' = toServer \o reply
             /\ uCodec' = read.state
             /\ UNCHANGED <<phase, cause, cCodec, toClient>>
          \/ /\ read.kind # "Ok"
             /\ read.kind = "Generic" => UpstreamReply(p) = {}
             /\ Fail(IF p.kind \in {"Err", "Full"} THEN "refused" ELSE "broken off")
             /\ uCodec' = read.state
             /\ UNCHANGED cCodec
    /\ UNCHANGED <<verified, seq, toProxy>>
    /\ World

\* Phase 3, passthrough: everything the server says is forwarded, and the client's
\* reply is waited for unless the server has said that there is none.
ExpectsReply(p) == p.kind # "Fast"

Relay ==
    /\ phase = "relaying"
    /\ NextRound
    /\ LET p    == Head(toUs)
           read == Decode(uCodec, p, FALSE)
       IN \/ /\ read.kind = "Ok"
             /\ toClient' = Append(toClient, p)
             /\ CommandPhase
             /\ UNCHANGED cause
          \/ /\ read.kind = "Err"
             /\ toClient' = Append(toClient, p)
             /\ Close("refused")
             /\ UNCHANGED codecs
          \/ /\ read.kind \notin {"Ok", "Err", "Malformed"}
             /\ toClient' = Append(toClient, p)
             /\ phase' = IF ExpectsReply(p) THEN "replying" ELSE "relaying"
             /\ uCodec' = read.state
             /\ UNCHANGED <<cause, cCodec>>
          \/ /\ read.kind = "Malformed"
             /\ Close("broken off")
             /\ UNCHANGED <<codecs, toClient>>
    /\ UNCHANGED <<verified, seq, toProxy, toServer>>
    /\ World

RelayReply ==
    /\ phase = "replying"
    /\ TakeFromClient
    /\ toServer' = Append(toServer, Head(toProxy))
    /\ phase' = "relaying"
    /\ UNCHANGED <<cause, verified, seq, rounds, codecs, toClient, toUs>>
    /\ World

TellIfProving ==
    toClient' = IF phase = "proving" THEN Append(toClient, Packet("Err", seq + 1))
                                     ELSE toClient

TooManyRounds ==
    /\ phase \in {"proving", "relaying"}
    /\ rounds = MaxRounds
    /\ Close("rounds")
    /\ TellIfProving
    /\ UNCHANGED <<verified, seq, rounds, codecs, toProxy, toServer, toUs>>
    /\ World

\* The waits of the exchange that are an auth_step end when the peer goes away, at
\* the handshake deadline, or at a shutdown.  Two are none: the server's greeting
\* and its handshake of TLS are waited for until it speaks or goes away.
Negotiating == {"response", "tlsResponse", "switch", "relaying", "replying",
                "proving"}
Unhurried == {"greeting", "upstreamTls"}
AuthStepEnds_NoDeadline ==
    /\ FALSE
    /\ UNCHANGED authVars
AuthStepEnds ==
    /\ phase \in Negotiating
    /\ Close("gave up")
    /\ TellIfProving
    /\ UNCHANGED <<verified, seq, rounds, codecs, toProxy, toServer, toUs>>
    /\ World

ServerGone ==
    /\ phase \in Unhurried
    /\ Close("gave up")
    /\ UNCHANGED <<verified, seq, rounds, codecs, toProxy, toClient, toServer, toUs>>
    /\ World

ProxyStep ==
    \/ Greeting \/ UpgradeClient \/ Response \/ SwitchReply \/ Prove \/ Relay
    \/ RelayReply \/ TooManyRounds

AuthNext ==
    \/ Greet \/ Serve \/ ClientStep \/ ProxyStep \/ UpstreamTls \/ AuthStepEnds
    \/ ServerGone

-----------------------------------------------------------------------------
(* Properties *)

Kinds == {"Greeting", "SslRequest", "Response", "Scramble", "KeyRequest",
          "Encrypted", "Cleartext", "Switch", "Fast", "Full", "Key", "Ok", "Err"}
Packets == [kind : Kinds, seq : Nat, from : {"none", "client", "proxy"},
            plugin : {"native", "sha2", "none"}, nonce : {"none", "server", "proxy"}]

AuthTypeOK ==
    /\ mode \in Modes
    /\ phase \in {"command", "closed"} \cup Unhurried \cup Negotiating
    /\ cause \in {"none", "refused", "broken off", "rounds", "gave up",
                 "protocol", "stopped"}
    /\ cCodec \in DecoderStates /\ uCodec \in DecoderStates
    /\ verified \in BOOLEAN
    /\ seq \in Nat
    /\ rounds \in 0..MaxRounds
    /\ client.at \in {"start", "tls", "await", "in", "failed"}
    /\ server.at \in {"start", "await", "tls", "accepted", "rejected"}
    /\ \A wire \in {toProxy, toClient, toServer, toUs} : wire \in Seq(Packets)

\* "a client that says OK and then immediately errors because the upstream
\* rejected the proxy is worse than one that simply never authenticated"
\* (handle_mysql_protocol): whoever is told OK has proved its own password, and
\* has a session of the server behind it.
WelcomeIsEarned ==
    client.at = "in" => server.at = "accepted" /\ mode.clientGood

\* "authenticate the client against the local credential here, before a single
\* byte of the proxy's own credential is used" (handle_mysql_protocol): the proxy
\* proves itself to the server for a client it has verified, and never relays
\* what a client of a terminating proxy proved.
ClientVerifiedFirst ==
    \A i \in DOMAIN toServer :
        /\ toServer[i].from = "proxy"  => verified /\ mode.clientGood
        /\ toServer[i].from = "client" => ~mode.terminating

\* authenticate_client and authenticate_upstream in their order: neither side is
\* given anything on the strength of what the other has not proved yet.
BothProveThemselves == WelcomeIsEarned /\ ClientVerifiedFirst

\* "MySQL answers a mismatch with ER_NET_PACKETS_OUT_OF_ORDER and drops the
\* connection" (handle_mysql_protocol): on either leg every packet carries the
\* number after the one before, with TLS on either, both or neither.  It is
\* claimed of a passthrough only when both legs or neither are encrypted: the
\* numbers of one are relayed onto the other unchanged.
InSequence ==
    mode.terminating \/ mode.clientTls = mode.upstreamTls => inOrder

\* "caching_sha2_password needs several round trips (auth switch, fast-auth
\* result, public-key request, full auth); handling only one packet left every
\* non-cached credential unable to connect" (handle_mysql_protocol): a
\* passthrough never breaks an exchange off over a packet it cannot read.
\* The code does not guarantee it: see the run passthrough_breaks_off.
PassthroughCompletes == cause = "broken off" => mode.terminating

\* "unauthenticated peers must not be able to pin a task" (HANDSHAKE_DEADLINE):
\* authentication ends, whatever the peers do, unless the session stays for good
\* in one of the two waits for the server that have no deadline.  No client can
\* hold it anywhere else, and no server that has spoken and finished TLS.
AuthEnds ==
    \/ <>(phase \in {"command", "closed"})
    \/ <>[](phase = "greeting")
    \/ <>[](phase = "upstreamTls")
=============================================================================
