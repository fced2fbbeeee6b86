------------------------- MODULE MySqlSessionProofs -------------------------
(***************************************************************************)
(* What holds of a MySQL session for any configuration, any number of      *)
(* round trips and of plugin switches, and any statements: who is let in,  *)
(* how packets are numbered, and how they are read.                        *)
(***************************************************************************)
EXTENDS MySqlSession, SequenceTheorems, TLAPS

-----------------------------------------------------------------------------
(* The inductive invariant *)

\* What a client sends; all but the two requests prove a password.
Requests == {"SslRequest", "KeyRequest"}
Proofs   == {"Response", "Scramble", "Encrypted", "Cleartext"}

\* Packets that prove the password of one of provers, if any.
Carried(provers) ==
    {p \in Packets : /\ p.kind \in Requests \cup Proofs
                     /\ p.from \in provers
                     /\ p.kind \in Proofs => p.from # "none"}

\* Packets of a server at at: OK comes from one that has accepted.
Earned(at) == {p \in Packets : p.kind = "Ok" => at = "accepted"}

\* Whose passwords the server may be shown.
Provers ==
    {"none"} \cup (IF mode.terminating THEN {} ELSE {"client"})
             \cup (IF verified THEN {"proxy"} ELSE {})

Unproven == Unhurried \cup Negotiating

\* Upstream authentication under way, or about to be once that leg is encrypted.
Proving == phase = "proving" \/ (phase = "upstreamTls" /\ mode.terminating)
Relays  == phase = "relaying" \/ (phase = "upstreamTls" /\ ~mode.terminating)

\* Types as far as authentication depends on them.
Shapes ==
    /\ mode \in Modes
    /\ seq \in Nat
    /\ verified \in BOOLEAN
    /\ client \in [at : {"start", "tls", "await", "in", "failed"}, seq : Nat,
                   nonce : {"none", "server", "proxy"}]
    /\ server \in [at : {"start", "await", "tls", "accepted", "rejected"}, seq : Nat,
                   switches : Nat]
    /\ phase \in Unproven => uCodec \in DecoderStates

\* What is on its way to whom.
Wires ==
    /\ toProxy \in Seq(Carried({"none", "client"}))
    /\ toServer \in Seq(Carried(Provers))
    /\ toUs \in Seq(Earned(server.at))
    /\ toClient \in Seq(Earned(server.at))

\* Which phases a terminating proxy goes through, and what it knows in them.
Phases ==
    /\ phase \in {"switch", "proving"} => mode.terminating
    /\ phase \in {"relaying", "replying"} => ~mode.terminating
    /\ Proving => verified
    /\ verified => mode.clientGood

\* The server accepts nobody for a client that has not proved itself.
Accepted ==
    /\ server.at = "accepted" => mode.clientGood
    /\ client.at = "in" => server.at = "accepted"

AuthInv == Shapes /\ Wires /\ Phases /\ Accepted

-----------------------------------------------------------------------------
(* Lemmas about the operators *)

\* A configuration names plugins that exist.
LEMMA ModeShape ==
    ASSUME NEW m \in Modes
    PROVE  /\ m.plugin \in Plugins /\ m.greeting \in Plugins
           /\ m.terminating \in BOOLEAN /\ m.clientGood \in BOOLEAN
           /\ m.upstreamTls \in BOOLEAN /\ m.clientTls \in BOOLEAN
  BY MySqlAuthAssumption DEF Modes, Configurations

\* The decoder reads OK only where an OK was sent, in any of its states, and stays in
\* one of them.
LEMMA DecodeTells ==
    ASSUME NEW state \in DecoderStates, NEW p \in Packets
    PROVE  /\ Decode(state, p, FALSE).kind = "Ok" => p.kind = "Ok"
           /\ Decode(state, p, FALSE).state \in DecoderStates
<1>1. At("Command") \in DecoderStates /\ At("ReadingRows") \in DecoderStates
      /\ At("WaitingHandshakeResponse") \in DecoderStates
      /\ At("WaitingAuthResponse") \in DecoderStates
  BY DEF DecoderStates
<1>2. \A n \in 1..MaxColumns : ReadingColumns(n) \in DecoderStates
  BY DEF DecoderStates
<1>3. CASE state.at = "WaitingHandshake"
  BY <1>1, <1>3 DEF Decode, Read
<1>4. CASE state.at = "WaitingHandshakeResponse"
  BY <1>1, <1>4 DEF Decode, AfterResponse, Read
<1>5. CASE state.at = "WaitingAuthResponse"
  BY <1>1, <1>5 DEF Decode, InAuth, Read
<1>6. CASE state.at = "Command"
  <2>1. CountOf(p) \in 1..MaxColumns
    BY MySqlCodecAssumption DEF CountOf, Packets, Kinds
  <2> QED BY <1>1, <1>2, <1>6, <2>1 DEF Decode, InCommand, Read, BeginsFE
<1>7. CASE state.at = "ReadingColumns"
  <2>1. PICK n \in 1..MaxColumns : state = ReadingColumns(n)
    BY <1>7 DEF DecoderStates, At
  <2>2. p.kind # "Column"
    BY DEF Packets, Kinds
  <2> QED BY <1>1, <1>7, <2>2 DEF Decode, InColumns, Read, Malformed
<1>8. CASE state.at = "ReadingRows"
  BY <1>1, <1>8 DEF Decode, InRows, Read, BeginsFE
<1>9. state.at \in {"WaitingHandshake", "WaitingHandshakeResponse", "WaitingAuthResponse",
                   "Command", "ReadingColumns", "ReadingRows"}
  BY DEF DecoderStates, At, ReadingColumns
<1> QED BY <1>3, <1>4, <1>5, <1>6, <1>7, <1>8, <1>9

\* The constructors make packets.
LEMMA PacketShape ==
    ASSUME NEW kind \in Kinds, NEW n \in Nat
    PROVE  /\ Packet(kind, n) \in Packets
           /\ Packet(kind, n).kind = kind /\ Packet(kind, n).from = "none"
  BY DEF Packet, Packets

\* A greeting and a request to switch plugins are packets that keep their kind.
LEMMA ChallengeShape ==
    ASSUME NEW kind \in Kinds, NEW n \in Nat, NEW plugin \in Plugins,
           NEW whose \in {"server", "proxy"}
    PROVE  /\ Challenge(kind, n, plugin, whose) \in Packets
           /\ Challenge(kind, n, plugin, whose).kind = kind
  BY MySqlAuthAssumption DEF Packet, Challenge, Packets

\* A proof is a packet of its kind and of its maker's.
LEMMA ProofShape ==
    ASSUME NEW kind \in Kinds, NEW n \in Nat, NEW who \in {"client", "proxy"},
           NEW plugin \in {"native", "sha2", "none"},
           NEW whose \in {"none", "server", "proxy"}
    PROVE  /\ Proof(kind, n, who, plugin, whose) \in Packets
           /\ Proof(kind, n, who, plugin, whose).kind = kind
           /\ Proof(kind, n, who, plugin, whose).from = who
  BY DEF Packet, Proof, Packets

\* The kinds of MySqlCodec that an authentication exchange knows.
LEMMA AllKinds ==
    {"Greeting", "SslRequest", "Response", "Scramble", "KeyRequest", "Encrypted",
     "Cleartext", "Switch", "Fast", "Full", "Key", "Ok", "Err"} = Kinds
  BY DEF Kinds

\* Short sequences.
LEMMA PairSeq ==
    ASSUME NEW S, NEW a \in S, NEW b \in S
    PROVE  <<a>> \in Seq(S) /\ <<a, b>> \in Seq(S) /\ <<>> \in Seq(S)
  OBVIOUS

\* A packet to the server is what its sender meant, under a new number.
LEMMA FirstUpstreamCarries ==
    ASSUME NEW provers, "none" \in provers, NEW p \in Carried(provers)
    PROVE  FirstUpstream(p) \in Seq(Carried(provers))
<1>1. \A n \in Nat : [p EXCEPT !.seq = n] \in Carried(provers)
  BY DEF Carried, Packets
<1>2. Packet("SslRequest", 1) \in Carried(provers)
  BY DEF Packet, Carried, Packets, Kinds, Requests, Proofs
<1> QED BY <1>1, <1>2, PairSeq DEF FirstUpstream

\* A server says OK, alone or behind Fast, to a proof that holds.
LEMMA ServerSays ==
    ASSUME NEW provers, NEW p \in Carried(provers), NEW answers \in ServerAnswers(p),
           mode \in Modes
    PROVE  \/ answers = <<>>
           \/ \E q \in Packets : q.kind # "Ok" /\ answers = <<q>>
           \/ /\ Proven(p) /\ p.from # "none"
              /\ \E f, o \in Packets : /\ f.kind # "Ok" /\ o.kind = "Ok"
                                       /\ answers \in {<<o>>, <<f, o>>}
<1>1. p \in Packets /\ p.seq + 1 \in Nat /\ p.seq + 1 + 1 \in Nat
      /\ p.kind \in Requests \cup Proofs /\ (p.kind \in Proofs => p.from # "none")
  BY DEF Carried, Packets
<1>4. {"Ok", "Err", "Key", "Full", "Fast", "Switch"} \subseteq Kinds
  BY DEF Kinds
<1>2. \A kind \in Kinds : Packet(kind, p.seq + 1) \in Packets
                          /\ Packet(kind, p.seq + 1).kind = kind
  BY <1>1, PacketShape
<1>3. Packet("Ok", p.seq + 1 + 1) \in Packets /\ Packet("Ok", p.seq + 1 + 1).kind = "Ok"
  BY <1>1, <1>4, PacketShape
<1>5. \A plugin \in Plugins :
          /\ Challenge("Switch", p.seq + 1, plugin, "server") \in Packets
          /\ Challenge("Switch", p.seq + 1, plugin, "server").kind = "Switch"
  BY <1>1, <1>4, ChallengeShape
<1>6. ASSUME answers = Verdict(p, p.seq + 1), p.kind \in Proofs
      PROVE  \/ \E q \in Packets : q.kind # "Ok" /\ answers = <<q>>
             \/ /\ Proven(p) /\ p.from # "none"
                /\ \E f, o \in Packets : /\ f.kind # "Ok" /\ o.kind = "Ok"
                                         /\ answers \in {<<o>>, <<f, o>>}
  <2>1. CASE Proven(p)
    BY <1>1, <1>2, <1>4, <1>6, <2>1 DEF Verdict
  <2>2. CASE ~Proven(p)
    BY <1>1, <1>2, <1>4, <1>6, <2>2 DEF Verdict
  <2> QED BY <2>1, <2>2
<1>7. CASE p.kind = "SslRequest"
  BY <1>7 DEF ServerAnswers
<1>8. CASE p.kind = "KeyRequest"
  BY <1>8, <1>2, <1>4 DEF ServerAnswers
<1>9. CASE p.kind = "Encrypted"
  BY <1>6, <1>9 DEF ServerAnswers, Proofs
<1>10. CASE p.kind = "Cleartext"
  BY <1>2, <1>4, <1>6, <1>10 DEF ServerAnswers, Proofs
<1>11. CASE p.kind \in {"Response", "Scramble"}
  <2>1. \/ \E plugin \in Plugins :
              answers = <<Challenge("Switch", p.seq + 1, plugin, "server")>>
        \/ answers = <<Packet("Full", p.seq + 1)>>
        \/ Proven(p) /\ answers = <<Packet("Fast", p.seq + 1), Packet("Ok", p.seq + 1 + 1)>>
        \/ answers = Verdict(p, p.seq + 1)
    BY <1>11 DEF ServerAnswers
  <2> QED BY <1>1, <1>2, <1>3, <1>4, <1>5, <1>6, <1>11, <2>1 DEF Proofs
<1> QED BY <1>1, <1>7, <1>8, <1>9, <1>10, <1>11 DEF Requests, Proofs

-----------------------------------------------------------------------------
(* Every step keeps the invariant *)

\* The server's greeting tells nobody OK.
LEMMA GreetStep ==
    ASSUME AuthInv, Greet
    PROVE  AuthInv'
<1>1. Challenge("Greeting", 0, mode.greeting, "server") \in Earned("await")
  <2> "Greeting" \in Kinds /\ mode.greeting \in Plugins
    BY AllKinds, ModeShape DEF AuthInv, Shapes
  <2> QED BY ChallengeShape DEF Earned
<1>2. toUs' \in Seq(Earned("await"))
  BY <1>1, PairSeq DEF Greet
<1>3. Earned("start") = Earned("await")
  BY DEF Earned
<1>4. server' = [server EXCEPT !.at = "await"] /\ server.at = "start"
  BY DEF Greet
<1>5. Shapes'
  BY <1>4 DEF AuthInv, Shapes, Greet, progress, codecs
<1>6. Wires'
  BY <1>2, <1>3, <1>4 DEF AuthInv, Shapes, Wires, Greet, progress, Provers
<1>7. Phases' /\ Accepted'
  BY <1>4 DEF AuthInv, Shapes, Phases, Proving, Relays, Accepted, Greet, progress
<1> QED BY <1>5, <1>6, <1>7 DEF AuthInv

\* The server accepts only a proof that holds, and only of those it may be shown.
LEMMA ServeStep ==
    ASSUME AuthInv, Serve
    PROVE  AuthInv'
<1> DEFINE p == Head(toServer)
<1>1. /\ p \in Carried(Provers) /\ Tail(toServer) \in Seq(Carried(Provers))
      /\ p \in Packets /\ p.seq \in Nat
  BY HeadTailProperties DEF AuthInv, Wires, Serve, Carried, Packets
<1>2. PICK answers \in ServerAnswers(p) :
          /\ toUs' = toUs \o answers
          /\ server' =
               IF answers = <<>> THEN [server EXCEPT !.seq = p.seq, !.at = "tls"]
               ELSE LET last == answers[Len(answers)]
                    IN CASE last.kind = "Ok"     -> Settled("accepted")
                         [] last.kind = "Err"    -> Settled("rejected")
                         [] last.kind = "Switch" ->
                              [server EXCEPT !.seq = last.seq, !.switches = @ + 1]
                         [] OTHER -> [server EXCEPT !.seq = last.seq]
  BY DEF Serve
<1>3. /\ server \in [at : {"await"}, seq : Nat, switches : Nat]
      /\ mode \in Modes
  BY DEF AuthInv, Shapes, Serve
<1> DEFINE Fits ==
      /\ server' \in [at : {"await", "tls", "accepted", "rejected"}, seq : Nat, switches : Nat]
      /\ answers \in Seq(Earned(server'.at))
      /\ server'.at = "accepted" => Proven(p) /\ p.from # "none"
<1>4. Fits
  <2>1. CASE answers = <<>>
    <3>1. server' = [at |-> "tls", seq |-> p.seq, switches |-> server.switches]
      BY <1>2, <1>3, <2>1
    <3> QED BY <1>1, <1>3, <2>1, <3>1, PairSeq
  <2>2. ASSUME NEW q \in Packets, q.kind # "Ok", answers = <<q>>
        PROVE  Fits
    <3>1. answers # <<>> /\ answers[Len(answers)] = q /\ q.seq \in Nat
      BY <2>2 DEF Packets
    <3>2. \/ server' = Settled("rejected")
          \/ server' = [server EXCEPT !.seq = q.seq, !.switches = @ + 1]
          \/ server' = [server EXCEPT !.seq = q.seq]
      BY <1>2, <2>2, <3>1
    <3>3. /\ server' \in [at : {"await", "rejected"}, seq : Nat, switches : Nat]
          /\ server'.at # "accepted"
      <4>1. CASE server' = Settled("rejected")
        BY <4>1 DEF Settled
      <4>2. CASE server' = [server EXCEPT !.seq = q.seq, !.switches = @ + 1]
        <5>1. server' = [at |-> "await", seq |-> q.seq, switches |-> server.switches + 1]
          BY <1>3, <4>2
        <5> QED BY <1>3, <3>1, <5>1
      <4>3. CASE server' = [server EXCEPT !.seq = q.seq]
        <5>1. server' = [at |-> "await", seq |-> q.seq, switches |-> server.switches]
          BY <1>3, <4>3
        <5> QED BY <1>3, <3>1, <5>1
      <4> QED BY <3>2, <4>1, <4>2, <4>3
    <3>4. q \in Earned(server'.at)
      BY <2>2 DEF Earned
    <3> QED BY <2>2, <3>3, <3>4, PairSeq
  <2>3. ASSUME Proven(p) /\ p.from # "none", NEW f \in Packets, NEW o \in Packets,
               f.kind # "Ok", o.kind = "Ok", answers \in {<<o>>, <<f, o>>}
        PROVE  Fits
    <3>1. answers # <<>> /\ answers[Len(answers)] = o
      <4>1. CASE answers = <<o>>    BY <4>1
      <4>2. CASE answers = <<f, o>> BY <4>2
      <4> QED BY <2>3, <4>1, <4>2
    <3>2. server' = Settled("accepted")
      BY <1>2, <2>3, <3>1
    <3>3. f \in Earned("accepted") /\ o \in Earned("accepted")
      BY DEF Earned
    <3> QED BY <2>3, <3>2, <3>3, PairSeq DEF Settled
  <2>4. \/ answers = <<>>
        \/ \E q \in Packets : q.kind # "Ok" /\ answers = <<q>>
        \/ /\ Proven(p) /\ p.from # "none"
           /\ \E f, o \in Packets : /\ f.kind # "Ok" /\ o.kind = "Ok"
                                    /\ answers \in {<<o>>, <<f, o>>}
    BY <1>1, <1>3, ServerSays
  <2> QED BY <2>1, <2>2, <2>3, <2>4
<1>5. server'.at = "accepted" => mode.clientGood
  <2>1. p.from \in Provers /\ (p.from # "none" => p.from \in {"client", "proxy"})
    BY <1>1 DEF Carried, Packets
  <2>2. "proxy" \in Provers => mode.clientGood
    BY DEF AuthInv, Phases, Proving, Relays, Provers
  <2> QED BY <1>4, <2>1, <2>2 DEF Proven
<1>6. Shapes'
  BY <1>4 DEF AuthInv, Shapes, Serve, progress, codecs
<1>7. Wires'
  <2>1. Earned("await") \subseteq Earned(server'.at)
    BY DEF Earned
  <2>2. toUs \in Seq(Earned(server'.at)) /\ toClient \in Seq(Earned(server'.at))
    BY <1>3, <2>1, SeqMonotonic DEF AuthInv, Wires
  <2>3. toUs' \in Seq(Earned(server'.at))
    BY <1>2, <1>4, <2>2, ConcatProperties
  <2> QED BY <1>1, <2>2, <2>3 DEF AuthInv, Wires, Serve, progress, Provers
<1>8. Phases'
  BY DEF AuthInv, Phases, Proving, Relays, Serve, progress
<1>9. Accepted'
  BY <1>3, <1>5 DEF AuthInv, Accepted, Serve
<1> QED BY <1>6, <1>7, <1>8, <1>9 DEF AuthInv

\* A client's step keeps the invariant if it sends proofs of its own and takes nothing
\* for an OK that is none.
LEMMA ClientSends ==
    ASSUME AuthInv, Unsent,
           toProxy' \in Seq(Carried({"none", "client"})),
           toClient' \in Seq(Earned(server.at)),
           client' \in [at : {"start", "tls", "await", "in", "failed"}, seq : Nat,
                        nonce : {"none", "server", "proxy"}],
           client'.at = "in" => server.at = "accepted"
    PROVE  AuthInv'
<1>1. Shapes'
  BY DEF AuthInv, Shapes, Unsent, progress, codecs
<1>2. Wires'
  BY DEF AuthInv, Wires, Unsent, progress, Provers
<1>3. Phases' /\ Accepted'
  BY DEF AuthInv, Phases, Proving, Relays, Accepted, Unsent, progress
<1> QED BY <1>1, <1>2, <1>3 DEF AuthInv

\* What a client hears is a packet of an earned kind; what is left is too.
LEMMA ClientHears ==
    ASSUME AuthInv, toClient # <<>>
    PROVE  /\ Head(toClient) \in Packets /\ Head(toClient).seq \in Nat
           /\ Head(toClient).seq + 1 \in Nat
           /\ Head(toClient).plugin \in {"native", "sha2", "none"}
           /\ Head(toClient).nonce \in {"none", "server", "proxy"}
           /\ Head(toClient).kind = "Ok" => server.at = "accepted"
           /\ Tail(toClient) \in Seq(Earned(server.at))
<1>1. Head(toClient) \in Earned(server.at) /\ Tail(toClient) \in Seq(Earned(server.at))
  BY HeadTailProperties DEF AuthInv, Wires
<1> QED BY <1>1 DEF Earned, Packets

\* A reply of the client that proves its own password or none.
LEMMA ClientReplies ==
    ASSUME AuthInv, NEW p \in Carried({"none", "client"}), NEW at \in {"tls", "await"},
           NEW nonce \in {"none", "server", "proxy"}, Reply(p, at, nonce)
    PROVE  /\ toProxy' \in Seq(Carried({"none", "client"}))
           /\ client' \in [at : {"start", "tls", "await", "in", "failed"}, seq : Nat,
                           nonce : {"none", "server", "proxy"}]
           /\ client'.at # "in"
<1>1. toProxy' \in Seq(Carried({"none", "client"}))
  BY AppendProperties DEF AuthInv, Wires, Reply
<1>2. p.seq \in Nat
  BY DEF Carried, Packets
<1> QED BY <1>1, <1>2 DEF Reply

\* What a client makes.
LEMMA ClientAsks ==
    ASSUME NEW kind \in Requests, NEW n \in Nat
    PROVE  Packet(kind, n) \in Carried({"none", "client"})
<1>1. kind \in Kinds /\ kind \notin Proofs
  BY AllKinds DEF Requests, Proofs
<1> QED BY <1>1, PacketShape DEF Carried

\* A client's proofs are its own.
LEMMA ClientProves ==
    ASSUME NEW kind \in Proofs, NEW n \in Nat, NEW plugin \in {"native", "sha2", "none"},
           NEW whose \in {"none", "server", "proxy"}
    PROVE  Proof(kind, n, "client", plugin, whose) \in Carried({"none", "client"})
<1>1. kind \in Kinds
  BY AllKinds DEF Proofs
<1> QED BY <1>1, ProofShape DEF Carried

\* A client asks, proves itself, is let in by an OK or gives up (ClientStep).
LEMMA ClientKeeps ==
    ASSUME AuthInv, ClientStep
    PROVE  AuthInv'
<1> USE DEF Requests, Proofs
<1>0. client \in [at : {"start", "tls", "await", "in", "failed"}, seq : Nat,
                  nonce : {"none", "server", "proxy"}]
      /\ (client.at = "in" => server.at = "accepted")
      /\ toProxy \in Seq(Carried({"none", "client"}))
      /\ toClient \in Seq(Earned(server.at))
  BY DEF AuthInv, Shapes, Wires, Accepted
<1>1. Plugins \subseteq {"native", "sha2", "none"}
  BY MySqlAuthAssumption
<1>2. CASE MeetsProxy
  <2>1. toClient # <<>> /\ toClient' = Tail(toClient) /\ Unsent
    BY <1>2 DEF MeetsProxy
  <2>2. CASE mode.clientTls
    <3>1. Reply(Packet("SslRequest", 1), "tls", Head(toClient).nonce)
      BY <1>2, <2>2 DEF MeetsProxy
    <3> QED BY <2>1, <3>1, ClientHears, ClientAsks, ClientReplies, ClientSends
  <2>3. CASE ~mode.clientTls
    <3>1. PICK plugin \in Plugins :
            Reply(Proof("Response", 1, "client", plugin, Head(toClient).nonce), "await",
                  Head(toClient).nonce)
      BY <1>2, <2>3 DEF MeetsProxy
    <3>2. Proof("Response", 1, "client", plugin, Head(toClient).nonce)
             \in Carried({"none", "client"})
      BY <1>1, <2>1, ClientHears, ClientProves
    <3> QED BY <2>1, <3>1, <3>2, ClientHears, ClientReplies, ClientSends
  <2> QED BY <2>2, <2>3
<1>3. CASE RespondsOverTls
  <2>1. PICK plugin \in Plugins :
          Reply(Proof("Response", 2, "client", plugin, client.nonce), "await", client.nonce)
    BY <1>3 DEF RespondsOverTls
  <2>2. Proof("Response", 2, "client", plugin, client.nonce) \in Carried({"none", "client"})
    BY <1>0, <1>1, ClientProves
  <2>3. Unsent /\ toClient' = toClient /\ client.nonce \in {"none", "server", "proxy"}
    BY <1>0, <1>3 DEF RespondsOverTls
  <2> QED BY <1>0, <2>1, <2>2, <2>3, ClientReplies, ClientSends
<1>4. CASE Switches
  <2> DEFINE p == Head(toClient)
             q == Proof("Scramble", p.seq + 1, "client", p.plugin, p.nonce)
  <2>1. toClient # <<>> /\ toClient' = Tail(toClient) /\ Unsent /\ Reply(q, "await", p.nonce)
    BY <1>4 DEF Switches, Hear
  <2>2. q \in Carried({"none", "client"})
    BY <2>1, ClientHears, ClientProves
  <2> QED BY <2>1, <2>2, ClientHears, ClientReplies, ClientSends
<1>5. CASE SendsPassword
  <2> DEFINE n == Head(toClient).seq + 1
  <2>1. toClient # <<>> /\ toClient' = Tail(toClient) /\ Unsent
    BY <1>5 DEF SendsPassword, Hear
  <2>2. n \in Nat
    BY <2>1, ClientHears
  <2>3. \E q \in {Proof("Cleartext", n, "client", "sha2", "none"), Packet("KeyRequest", n),
                  Proof("Encrypted", n, "client", "sha2", "none")} :
           Reply(q, "await", client.nonce)
    BY <1>5 DEF SendsPassword
  <2>4. {Proof("Cleartext", n, "client", "sha2", "none"), Packet("KeyRequest", n),
         Proof("Encrypted", n, "client", "sha2", "none")} \subseteq Carried({"none", "client"})
    <3>1. Packet("KeyRequest", n) \in Carried({"none", "client"})
      BY <2>2, ClientAsks
    <3>2. /\ Proof("Cleartext", n, "client", "sha2", "none") \in Carried({"none", "client"})
          /\ Proof("Encrypted", n, "client", "sha2", "none") \in Carried({"none", "client"})
      BY <2>2, ClientProves
    <3> QED BY <3>1, <3>2
  <2>5. client.nonce \in {"none", "server", "proxy"}
    BY <1>0
  <2> HIDE DEF n
  <2> QED BY <2>1, <2>3, <2>4, <2>5, ClientHears, ClientReplies, ClientSends
<1>6. CASE UsesKey
  <2> DEFINE n == Head(toClient).seq + 1
             q == Proof("Encrypted", n, "client", "sha2", "none")
  <2>1. toClient # <<>> /\ toClient' = Tail(toClient) /\ Unsent
        /\ Reply(q, "await", client.nonce)
    BY <1>6 DEF UsesKey, Hear
  <2>2. q \in Carried({"none", "client"})
    BY <2>1, ClientHears, ClientProves
  <2>3. client.nonce \in {"none", "server", "proxy"}
    BY <1>0
  <2> HIDE DEF q
  <2> QED BY <2>1, <2>2, <2>3, ClientHears, ClientReplies, ClientSends
<1>7. CASE Waits
  <2>1. toClient # <<>> /\ toClient' = Tail(toClient) /\ Unsent /\ toProxy' = toProxy
        /\ client' = [client EXCEPT !.seq = Head(toClient).seq]
    BY <1>7 DEF Waits, Hear
  <2> QED BY <1>0, <2>1, ClientHears, ClientSends
<1>8. CASE Learns("Ok", "in")
  <2>1. toClient # <<>> /\ toClient' = Tail(toClient) /\ Unsent /\ toProxy' = toProxy
        /\ client' = [client EXCEPT !.at = "in", !.seq = 0] /\ Head(toClient).kind = "Ok"
    BY <1>8 DEF Learns, Hear
  <2> QED BY <1>0, <2>1, ClientHears, ClientSends
<1>9. CASE Learns("Err", "failed")
  <2>1. toClient # <<>> /\ toClient' = Tail(toClient) /\ Unsent /\ toProxy' = toProxy
        /\ client' = [client EXCEPT !.at = "failed", !.seq = 0]
    BY <1>9 DEF Learns, Hear
  <2> QED BY <1>0, <2>1, ClientHears, ClientSends
<1> QED BY <1>2, <1>3, <1>4, <1>5, <1>6, <1>7, <1>8, <1>9 DEF ClientStep

\* A step of the proxy keeps the invariant if it shows the server no password but those
\* it may, tells no OK that is not earned, and knows what its phase says it knows.
LEMMA ProxySends ==
    ASSUME AuthInv, World,
           toProxy' \in Seq(Carried({"none", "client"})),
           toServer' \in Seq(Carried(Provers')),
           toUs' \in Seq(Earned(server.at)),
           toClient' \in Seq(Earned(server.at)),
           seq' \in Nat, verified' \in BOOLEAN,
           phase' \in Unproven => uCodec' \in DecoderStates,
           Phases'
    PROVE  AuthInv'
<1>1. Shapes' /\ Wires' /\ Accepted'
  BY DEF AuthInv, Shapes, Wires, Accepted, World
<1> QED BY <1>1 DEF AuthInv

\* What the proxy takes from either side.
LEMMA FromServer ==
    ASSUME AuthInv, TakeFromServer
    PROVE  /\ Head(toUs) \in Packets /\ Head(toUs) \in Earned(server.at)
           /\ Head(toUs).seq + 1 \in Nat
           /\ Head(toUs).kind = "Ok" => server.at = "accepted" /\ mode.clientGood
           /\ toUs' \in Seq(Earned(server.at))
<1>1. Head(toUs) \in Earned(server.at) /\ toUs' \in Seq(Earned(server.at))
  BY HeadTailProperties DEF AuthInv, Wires, TakeFromServer
<1> QED BY <1>1 DEF Earned, Packets, AuthInv, Accepted

\* What the proxy takes from the client proves the client's password, or none.
LEMMA FromClient ==
    ASSUME AuthInv, TakeFromClient
    PROVE  /\ Head(toProxy) \in Packets /\ Head(toProxy) \in Carried({"none", "client"})
           /\ Head(toProxy).seq \in Nat /\ Head(toProxy).seq + 1 \in Nat
           /\ toProxy' \in Seq(Carried({"none", "client"}))
<1>1. Head(toProxy) \in Carried({"none", "client"})
      /\ toProxy' \in Seq(Carried({"none", "client"}))
  BY HeadTailProperties DEF AuthInv, Wires, TakeFromClient
<1> QED BY <1>1 DEF Carried, Packets

\* The packets the proxy makes for the client.
LEMMA Refusal ==
    ASSUME NEW at, NEW n \in Nat
    PROVE  Packet("Err", n + 1) \in Earned(at)
<1>1. "Err" \in Kinds /\ n + 1 \in Nat
  BY AllKinds
<1> QED BY <1>1, PacketShape DEF Earned

\* authenticate_client challenges the client and tells it no OK.
LEMMA OwnChallenge ==
    ASSUME mode \in Modes, NEW at, NEW n \in Nat, NEW kind \in {"Greeting", "Switch"}
    PROVE  Challenge(kind, n, mode.plugin, "proxy") \in Earned(at)
<1>1. kind \in Kinds /\ mode.plugin \in Plugins
  BY AllKinds, ModeShape
<1> QED BY <1>1, ChallengeShape DEF Earned

\* The OK of a proxy whose server has accepted is earned.
LEMMA WelcomeShape ==
    ASSUME NEW n \in Nat
    PROVE  Welcome(n) \in Seq(Earned("accepted"))
<1>1. "Fast" \in Kinds /\ "Ok" \in Kinds /\ n + 1 \in Nat /\ n + 2 \in Nat
  BY AllKinds
<1>2. \A kind \in {"Fast", "Ok"} : \A k \in {n + 1, n + 2} :
         Packet(kind, k) \in Earned("accepted")
  BY <1>1, PacketShape DEF Earned
<1> QED BY <1>2, PairSeq DEF Welcome

\* The proxy's own proofs may go to the server once the client is verified.
LEMMA OwnProof ==
    ASSUME NEW kind \in Proofs, NEW n \in Nat, NEW plugin \in {"native", "sha2", "none"},
           NEW whose \in {"none", "server", "proxy"}, NEW provers, "proxy" \in provers
    PROVE  Proof(kind, n, "proxy", plugin, whose) \in Carried(provers)
<1>1. kind \in Kinds
  BY AllKinds DEF Proofs
<1> QED BY <1>1, ProofShape DEF Carried

\* The states the proxy gives the upstream decoder while it negotiates.
LEMMA States ==
    {At("WaitingHandshake"), At("WaitingHandshakeResponse"), At("WaitingAuthResponse"),
     At("Command")} \subseteq DecoderStates
  BY DEF DecoderStates

\* The server's greeting, or the terminating proxy's own, goes to the client.
LEMMA GreetingStep ==
    ASSUME AuthInv, Greeting
    PROVE  AuthInv'
<1>1. phase = "greeting" /\ TakeFromServer /\ World /\ phase' = "response"
      /\ seq' = seq /\ verified' = verified /\ toProxy' = toProxy /\ toServer' = toServer
      /\ uCodec' = Decode(uCodec, Head(toUs), FALSE).state
  BY DEF Greeting
<1>2. uCodec' \in DecoderStates
  <2>1. uCodec \in DecoderStates
    BY <1>1 DEF AuthInv, Shapes, Unproven, Unhurried
  <2> QED BY <1>1, <2>1, FromServer, DecodeTells
<1>3. toClient' \in Seq(Earned(server.at))
  <2>1. Challenge("Greeting", 0, mode.plugin, "proxy") \in Earned(server.at)
    BY OwnChallenge DEF AuthInv, Shapes
  <2> QED BY <1>1, <2>1, FromServer, PairSeq DEF Greeting
<1>4. Phases'
  BY <1>1 DEF AuthInv, Phases, Proving, Relays, World
<1>5. Provers' = Provers
  BY <1>1 DEF Provers, World
<1> QED BY <1>1, <1>2, <1>3, <1>4, <1>5, FromServer, ProxySends DEF AuthInv, Shapes, Wires

\* An SSLRequest upgrades the client's leg and goes no further.
LEMMA UpgradeStep ==
    ASSUME AuthInv, UpgradeClient
    PROVE  AuthInv'
<1>1. phase = "response" /\ TakeFromClient /\ World /\ phase' = "tlsResponse"
      /\ seq' = seq /\ verified' = verified /\ uCodec' = uCodec /\ toUs' = toUs
      /\ toClient' = toClient /\ toServer' = toServer
  BY DEF UpgradeClient
<1>2. Phases' /\ Provers' = Provers /\ uCodec' \in DecoderStates
  BY <1>1 DEF AuthInv, Shapes, Phases, Proving, Relays, World, Provers, Unproven,
              Negotiating, Unhurried
<1> QED BY <1>1, <1>2, FromClient, ProxySends DEF AuthInv, Shapes, Wires

\* authenticate_client: accepted or refused.
LEMMA VerifyStep ==
    ASSUME AuthInv, World, mode.terminating, NEW p \in Carried({"none", "client"}),
           Verify(p), toProxy' \in Seq(Carried({"none", "client"})), toUs' = toUs
    PROVE  AuthInv'
<1>1. p.seq \in Nat /\ seq' \in Nat
  BY DEF Verify, Carried, Packets
<1>2. CASE Accepts(p) /\ verified' = TRUE /\ AuthenticateUpstream /\ toClient' = toClient
  <2>1. "proxy" \in Provers' /\ "none" \in Provers'
    BY <1>2 DEF Provers
  <2>2. mode.greeting \in {"native", "sha2", "none"}
    BY ModeShape, MySqlAuthAssumption DEF AuthInv, Shapes
  <2>3. Proof("Response", 0, "proxy", mode.greeting, "server") \in Carried(Provers')
    BY <2>1, <2>2, OwnProof DEF Proofs
  <2>4. toServer' \in Seq(Carried(Provers'))
    BY <1>2, <2>1, <2>3, FirstUpstreamCarries DEF AuthenticateUpstream
  <2>5. Phases'
    BY <1>2 DEF AuthInv, Phases, Proving, Relays, World, AuthenticateUpstream, Upstreaming,
                 Accepts
  <2>6. uCodec' \in DecoderStates
    BY <1>2, States DEF AuthenticateUpstream
  <2> QED BY <1>1, <1>2, <2>4, <2>5, <2>6, ProxySends DEF AuthInv, Wires
<1>3. CASE /\ toClient' = Append(toClient, Packet("Err", p.seq + 1))
           /\ Close("refused") /\ UNCHANGED <<verified, uCodec, toServer>>
  <2>1. toClient' \in Seq(Earned(server.at))
    BY <1>1, <1>3, Refusal, AppendProperties DEF AuthInv, Wires
  <2>2. Phases' /\ Provers' = Provers /\ phase' \notin Unproven
    BY <1>3 DEF AuthInv, Phases, Proving, Relays, World, Close, Provers, Unproven,
                Negotiating, Unhurried
  <2> QED BY <1>1, <1>3, <2>1, <2>2, ProxySends DEF AuthInv, Shapes, Wires
<1> QED BY <1>2, <1>3 DEF Verify

\* The client's response is relayed, verified, or answered by a request to switch.
LEMMA ResponseStep ==
    ASSUME AuthInv, Response
    PROVE  AuthInv'
<1> DEFINE p == Head(toProxy)
<1>1. /\ phase \in {"response", "tlsResponse"} /\ TakeFromClient /\ World /\ toUs' = toUs
      /\ p.kind = "Response"
      /\ p \in Carried({"none", "client"}) /\ p.seq \in Nat
      /\ toProxy' \in Seq(Carried({"none", "client"}))
  BY FromClient DEF Response
<1>2. CASE /\ ~mode.terminating /\ toServer' = FirstUpstream(p)
           /\ uCodec' = At("WaitingHandshakeResponse") /\ phase' = Upstreaming("relaying")
           /\ UNCHANGED <<cause, verified, seq, toClient>>
  <2>1. Provers' = Provers /\ "none" \in Provers /\ "client" \in Provers
    BY <1>1, <1>2 DEF Provers, World
  <2>2. p \in Carried(Provers)
    BY <1>1, <2>1 DEF Carried
  <2>3. toServer' \in Seq(Carried(Provers'))
    BY <1>2, <2>1, <2>2, FirstUpstreamCarries
  <2>4. Phases'
    BY <1>1, <1>2 DEF AuthInv, Phases, Proving, Relays, World, Upstreaming
  <2>5. uCodec' \in DecoderStates
    BY <1>2, States
  <2> QED BY <1>1, <1>2, <2>3, <2>4, <2>5, ProxySends DEF AuthInv, Shapes, Wires
<1>3. CASE mode.terminating /\ Verify(p)
  BY <1>1, <1>3, VerifyStep
<1>4. CASE mode.terminating /\ AskToSwitch(p)
  <2>1. Challenge("Switch", p.seq + 1, mode.plugin, "proxy") \in Earned(server.at)
    <3>1. p.seq + 1 \in Nat /\ mode \in Modes
      BY <1>1 DEF AuthInv, Shapes
    <3> QED BY <3>1, OwnChallenge
  <2>2. toClient' \in Seq(Earned(server.at))
    BY <1>4, <2>1, AppendProperties DEF AskToSwitch, AuthInv, Wires
  <2>3. Phases' /\ Provers' = Provers /\ uCodec' \in DecoderStates
    BY <1>1, <1>4 DEF AuthInv, Shapes, Phases, Proving, Relays, World, AskToSwitch,
                      Provers, Unproven,
                      Negotiating, Unhurried
  <2> QED BY <1>1, <1>4, <2>2, <2>3, ProxySends DEF AskToSwitch, AuthInv, Shapes, Wires
<1> QED BY <1>2, <1>3, <1>4 DEF Response

\* The reply to the proxy's request to switch is verified.
LEMMA SwitchReplyStep ==
    ASSUME AuthInv, SwitchReply
    PROVE  AuthInv'
<1>1. /\ phase = "switch" /\ mode.terminating /\ TakeFromClient /\ World /\ toUs' = toUs
  BY DEF SwitchReply, AuthInv, Phases, Proving, Relays
<1>2. CASE Verify(Head(toProxy))
  BY <1>1, <1>2, FromClient, VerifyStep
<1>3. CASE Close("broken off") /\ UNCHANGED <<verified, seq, uCodec, toClient, toServer>>
  <2>1. Phases' /\ Provers' = Provers /\ phase' \notin Unproven
    BY <1>1, <1>3 DEF AuthInv, Phases, Proving, Relays, World, Close, Provers, Unproven,
                      Negotiating, Unhurried
  <2> QED BY <1>1, <1>3, <2>1, FromClient, ProxySends DEF AuthInv, Shapes, Wires
<1> QED BY <1>2, <1>3 DEF SwitchReply

\* What authenticate_upstream replies shows the server the proxy's own password.
LEMMA OwnReply ==
    ASSUME NEW p \in Packets, NEW reply \in UpstreamReply(p),
           NEW provers, "proxy" \in provers
    PROVE  reply \in Seq(Carried(provers))
<1>1. p.seq + 1 \in Nat /\ p.plugin \in {"native", "sha2", "none"}
      /\ p.nonce \in {"none", "server", "proxy"}
  BY DEF Packets
<1>2. Proof("Scramble", p.seq + 1, "proxy", p.plugin, p.nonce) \in Carried(provers)
  BY <1>1, OwnProof DEF Proofs
<1>3. /\ Proof("Cleartext", p.seq + 1, "proxy", "sha2", "none") \in Carried(provers)
      /\ Proof("Encrypted", p.seq + 1, "proxy", "sha2", "none") \in Carried(provers)
  BY <1>1, OwnProof DEF Proofs
<1>4. CASE p.kind = "Switch"
  <2>1. reply = <<Proof("Scramble", p.seq + 1, "proxy", p.plugin, p.nonce)>>
    BY <1>4 DEF UpstreamReply
  <2> QED BY <1>2, <2>1, PairSeq
<1>5. CASE p.kind = "Full"
  <2>1. PICK q \in Password(p.seq + 1) : reply = <<q>>
    BY <1>5 DEF UpstreamReply
  <2>2. q \in Carried(provers)
    BY <1>3, <2>1 DEF Password
  <2> QED BY <2>1, <2>2, PairSeq
<1>6. CASE p.kind = "Fast"
  <2>1. reply = <<>>
    BY <1>6 DEF UpstreamReply
  <2> QED BY <2>1
<1>7. p.kind \in {"Switch", "Full", "Fast"}
  BY DEF UpstreamReply
<1> QED BY <1>4, <1>5, <1>6, <1>7

\* One round of authenticate_upstream: OK ends it well, and nothing else does.
LEMMA ProveStep ==
    ASSUME AuthInv, Prove
    PROVE  AuthInv'
<1> DEFINE p    == Head(toUs)
           read == Decode(uCodec, p, FALSE)
<1>1. /\ phase = "proving" /\ TakeFromServer /\ World
      /\ verified' = verified /\ seq' = seq /\ toProxy' = toProxy
  BY DEF Prove, NextRound
<1>2. /\ uCodec \in DecoderStates /\ verified /\ mode.terminating /\ mode.clientGood
      /\ p \in Packets /\ toUs' \in Seq(Earned(server.at)) /\ seq \in Nat
      /\ toServer \in Seq(Carried(Provers)) /\ toClient \in Seq(Earned(server.at))
      /\ Provers' = Provers /\ "proxy" \in Provers
  BY <1>1, FromServer DEF AuthInv, Shapes, Wires, Phases, Proving, Relays, Unproven,
                          Negotiating, Unhurried, Provers, World
<1>3. CASE read.kind = "Ok" /\ toClient' = toClient \o Welcome(seq) /\ CommandPhase
           /\ toServer' = toServer
  <2>1. server.at = "accepted"
    BY <1>1, <1>2, <1>3, DecodeTells, FromServer
  <2>2. toClient' \in Seq(Earned(server.at))
    BY <1>2, <1>3, <2>1, WelcomeShape, ConcatProperties
  <2>3. Phases' /\ phase' \notin Unproven
    BY <1>1, <1>2, <1>3 DEF CommandPhase, Phases, Proving, Relays, World, Unproven,
                            Negotiating, Unhurried
  <2> QED BY <1>1, <1>2, <1>3, <2>2, <2>3, ProxySends DEF AuthInv, Shapes, Wires
<1>4. CASE /\ \E reply \in UpstreamReply(p) : toServer' = toServer \o reply
           /\ uCodec' = read.state /\ UNCHANGED <<phase, cause, cCodec, toClient>>
  <2>1. toServer' \in Seq(Carried(Provers'))
    BY <1>2, <1>4, OwnReply, ConcatProperties
  <2>2. uCodec' \in DecoderStates
    BY <1>2, <1>4, DecodeTells
  <2>3. Phases'
    BY <1>1, <1>2, <1>4 DEF Phases, Proving, Relays, World
  <2> QED BY <1>1, <1>2, <1>4, <2>1, <2>2, <2>3, ProxySends DEF AuthInv, Shapes, Wires
<1>5. ASSUME NEW why, Fail(why)
      PROVE  AuthInv'
  <2>1. toClient' \in Seq(Earned(server.at))
    BY <1>2, <1>5, Refusal, AppendProperties DEF Fail
  <2>2. Phases' /\ phase' \notin Unproven /\ toServer' = toServer
    BY <1>1, <1>2, <1>5 DEF Fail, Close, Phases, Proving, Relays, World, Unproven,
                            Negotiating, Unhurried
  <2> QED BY <1>1, <1>2, <2>1, <2>2, ProxySends DEF AuthInv, Shapes, Wires
<1> QED BY <1>3, <1>4, <1>5 DEF Prove

\* One round of the relayed exchange, from the server.
LEMMA RelayStep ==
    ASSUME AuthInv, Relay
    PROVE  AuthInv'
<1> DEFINE p    == Head(toUs)
           read == Decode(uCodec, p, FALSE)
<1>1. /\ phase = "relaying" /\ TakeFromServer /\ World /\ verified' = verified /\ seq' = seq
      /\ toProxy' = toProxy /\ toServer' = toServer
  BY DEF Relay, NextRound
<1>2. /\ uCodec \in DecoderStates /\ ~mode.terminating
      /\ p \in Earned(server.at) /\ p \in Packets /\ toUs' \in Seq(Earned(server.at))
      /\ seq \in Nat /\ toClient \in Seq(Earned(server.at)) /\ Provers' = Provers
  BY <1>1, FromServer DEF AuthInv, Shapes, Wires, Phases, Proving, Relays, Unproven,
                          Negotiating, Unhurried, Provers, World
<1>3. toClient' \in Seq(Earned(server.at))
  <2>1. toClient' \in {toClient, Append(toClient, p)}
    BY DEF Relay
  <2>2. Append(toClient, p) \in Seq(Earned(server.at))
    BY <1>2, AppendProperties
  <2> HIDE DEF p
  <2> QED BY <1>2, <2>1, <2>2
<1>4. Phases' /\ (phase' \in Unproven => uCodec' \in DecoderStates)
  <2>1. phase' \in {"command", "closed"} \/ /\ phase' \in {"replying", "relaying"}
                                            /\ uCodec' = read.state
    BY DEF Relay, CommandPhase, Close
  <2>2. read.state \in DecoderStates
    BY <1>2, DecodeTells
  <2>3. phase' \in {"command", "closed"} => phase' \notin Unproven
    BY DEF Unproven, Negotiating, Unhurried
  <2> HIDE DEF read
  <2> QED BY <1>1, <1>2, <2>1, <2>2, <2>3 DEF AuthInv, Phases, Proving, Relays, World
<1> QED BY <1>1, <1>2, <1>3, <1>4, ProxySends DEF AuthInv, Shapes, Wires

\* One round of the relayed exchange, from the client.
LEMMA RelayReplyStep ==
    ASSUME AuthInv, RelayReply
    PROVE  AuthInv'
<1>1. /\ phase = "replying" /\ TakeFromClient /\ World /\ phase' = "relaying"
      /\ toServer' = Append(toServer, Head(toProxy))
      /\ UNCHANGED <<verified, seq, uCodec, toClient, toUs>>
  BY DEF RelayReply, codecs
<1>2. Provers' = Provers /\ "none" \in Provers /\ "client" \in Provers
  BY <1>1 DEF Provers, World, AuthInv, Phases, Proving, Relays
<1>3. Head(toProxy) \in Carried(Provers)
  BY <1>1, <1>2, FromClient DEF Carried
<1>4. toServer' \in Seq(Carried(Provers'))
  BY <1>1, <1>2, <1>3, AppendProperties DEF AuthInv, Wires
<1>5. Phases' /\ uCodec' \in DecoderStates
  BY <1>1 DEF AuthInv, Shapes, Phases, Proving, Relays, World, Unproven, Negotiating, Unhurried
<1> QED BY <1>1, <1>4, <1>5, FromClient, ProxySends DEF AuthInv, Shapes, Wires

\* The session ends: out of rounds, at a deadline, or because a peer is gone.
LEMMA EndStep ==
    ASSUME AuthInv, World, phase' = "closed",
           \/ toClient' = toClient
           \/ toClient' = Append(toClient, Packet("Err", seq + 1)),
           UNCHANGED <<verified, seq, toProxy, toServer, toUs>>
    PROVE  AuthInv'
<1>1. toClient' \in Seq(Earned(server.at))
  <2>1. seq \in Nat /\ toClient \in Seq(Earned(server.at))
    BY DEF AuthInv, Shapes, Wires
  <2>2. Packet("Err", seq + 1) \in Earned(server.at)
    BY <2>1, Refusal
  <2> QED BY <2>1, <2>2, AppendProperties
<1>2. Phases' /\ Provers' = Provers /\ phase' \notin Unproven
  BY DEF AuthInv, Phases, Proving, Relays, World, Provers, Unproven, Negotiating, Unhurried
<1> QED BY <1>1, <1>2, ProxySends DEF AuthInv, Shapes, Wires

\* The leg to the server is encrypted.
LEMMA UpstreamTlsStep ==
    ASSUME AuthInv, UpstreamTls
    PROVE  AuthInv'
<1>1. /\ phase = "upstreamTls" /\ server' = [server EXCEPT !.at = "await"] /\ server.at = "tls"
      /\ phase' = IF mode.terminating THEN "proving" ELSE "relaying"
      /\ UNCHANGED <<mode, verified, seq, uCodec, client, toProxy, toClient, toServer, toUs>>
  BY DEF UpstreamTls, codecs
<1>2. server'.at = "await" /\ server' \in [at : {"await"}, seq : Nat, switches : Nat]
  BY <1>1 DEF AuthInv, Shapes
<1>3. Shapes'
  BY <1>1, <1>2 DEF AuthInv, Shapes, Unproven, Negotiating, Unhurried
<1>4. Wires'
  <2>1. Provers' = Provers /\ Earned("tls") = Earned("await")
    BY <1>1 DEF Provers, Earned
  <2> QED BY <1>1, <1>2, <2>1 DEF AuthInv, Wires
<1>5. Phases' /\ Accepted'
  BY <1>1, <1>2 DEF AuthInv, Phases, Proving, Relays, Accepted
<1> QED BY <1>3, <1>4, <1>5 DEF AuthInv

\* The command phase and the far ends of a session leave authentication alone.
LEMMA CommandKeeps ==
    ASSUME AuthInv, CommandStep
    PROVE  AuthInv'
<1>1. UNCHANGED <<mode, verified, seq, client, server, toProxy, toClient, toServer, toUs>>
  BY DEF CommandStep
<1>2. \/ phase = "command" /\ phase' \in {"command", "closed"}
      \/ phase' = phase /\ uCodec' = uCodec
  BY DEF CommandStep, Relaying!RelayNext, Relaying!Issue, Relaying!Serve,
         Relaying!InReturn, Relaying!LoopStep, Relaying!RefuseBinary, Relaying!Forward,
         Relaying!ForwardCommand, Relaying!ForwardReply, Relaying!Stop, Relaying!Close
<1>3. Shapes'
  BY <1>1, <1>2 DEF AuthInv, Shapes, Unproven, Negotiating, Unhurried
<1>4. Wires' /\ Phases' /\ Accepted'
  BY <1>1, <1>2 DEF AuthInv, Wires, Phases, Proving, Relays, Accepted, Provers
<1> QED BY <1>3, <1>4 DEF AuthInv

-----------------------------------------------------------------------------
(* Theorems *)

\* At the start nobody has been shown or told anything.
LEMMA InitKeeps == Init => AuthInv
<1> SUFFICES ASSUME Init PROVE AuthInv
  OBVIOUS
<1> USE DEF Init, AuthInit
<1>1. Shapes
  BY States DEF Shapes
<1>2. Wires
  BY DEF Wires
<1>3. Phases /\ Accepted
  BY DEF Phases, Proving, Relays, Accepted
<1> QED BY <1>1, <1>2, <1>3 DEF AuthInv

\* Every step of a session keeps the invariant.
LEMMA NextKeeps == AuthInv /\ [Next]_vars => AuthInv'
<1> SUFFICES ASSUME AuthInv, [Next]_vars PROVE AuthInv'
  OBVIOUS
<1>1. CASE Greet           BY <1>1, GreetStep
<1>2. CASE Serve           BY <1>2, ServeStep
<1>3. CASE ClientStep      BY <1>3, ClientKeeps
<1>4. CASE Greeting        BY <1>4, GreetingStep
<1>5. CASE UpgradeClient   BY <1>5, UpgradeStep
<1>6. CASE Response        BY <1>6, ResponseStep
<1>7. CASE SwitchReply     BY <1>7, SwitchReplyStep
<1>8. CASE Prove           BY <1>8, ProveStep
<1>9. CASE Relay           BY <1>9, RelayStep
<1>10. CASE RelayReply     BY <1>10, RelayReplyStep
<1>11. CASE TooManyRounds \/ AuthStepEnds \/ ServerGone
  BY <1>11, EndStep DEF TooManyRounds, AuthStepEnds, ServerGone, TellIfProving, Close
<1>12. CASE CommandStep    BY <1>12, CommandKeeps
<1>13. CASE UNCHANGED vars
  BY <1>13 DEF vars, authVars, progress, codecs, AuthInv, Shapes, Wires, Phases, Proving,
               Relays, Accepted,
               Provers
<1>14. CASE UpstreamTls    BY <1>14, UpstreamTlsStep
<1> QED BY <1>1, <1>2, <1>3, <1>4, <1>5, <1>6, <1>7, <1>8, <1>9, <1>10, <1>11, <1>12, <1>13,
           <1>14
        DEF Next, AuthStep, AuthNext, ProxyStep, Ended

\* The invariant says what is claimed.
LEMMA InvProves == AuthInv => BothProveThemselves
<1> SUFFICES ASSUME AuthInv PROVE BothProveThemselves
  OBVIOUS
<1>1. WelcomeIsEarned
  BY DEF AuthInv, Accepted, WelcomeIsEarned
<1>2. ClientVerifiedFirst
  <2> SUFFICES ASSUME NEW i \in DOMAIN toServer
               PROVE  /\ toServer[i].from = "proxy"  => verified /\ mode.clientGood
                      /\ toServer[i].from = "client" => ~mode.terminating
    BY DEF ClientVerifiedFirst
  <2>1. toServer[i] \in Carried(Provers)
    BY LenProperties, ElementOfSeq DEF AuthInv, Wires
  <2> QED BY <2>1 DEF Carried, Provers, AuthInv, Phases, Proving, Relays
<1> QED BY <1>1, <1>2 DEF BothProveThemselves

\* handle_mysql_protocol, for every configuration of TLS, plugins, pinned key and
\* passwords, any number of rounds and switches: a client is told OK only if it has
\* proved itself and the server has accepted the session; a terminating proxy shows the
\* server its own password for a verified client only, and never the client's.
THEOREM NobodyIsLetInEarly == Spec => []BothProveThemselves
<1>1. Spec => []AuthInv
  BY InitKeeps, NextKeeps, PTL DEF Spec
<1> QED BY <1>1, InvProves, PTL

-----------------------------------------------------------------------------
(* Sequence numbers: the inductive invariant *)

\* Where InSequence is claimed: a passthrough relays the numbers of one leg onto the
\* other.
Claimed == mode.terminating \/ mode.clientTls = mode.upstreamTls

\* Packets numbered on from n; packets of which only those of one kind have another
\* behind them; packets the last of which, if an answer is expected, is the server's
\* last word.
InARow(wire, n)      == \A i \in DOMAIN wire : wire[i].seq = n + i
LastOnly(wire, kind) == \A i \in DOMAIN wire : i < Len(wire) => wire[i].kind = kind
LastSent(wire) ==
    \A i \in DOMAIN wire :
        i = Len(wire) /\ wire[i].kind \notin {"Ok", "Err"} => wire[i].seq = server.seq

\* The client speaks when it has heard everything, and once.
ClientLeg ==
    /\ \A i \in DOMAIN toClient :
          toClient[i].kind # "Greeting" => toClient[i].seq = client.seq + i
    /\ LastOnly(toClient, "Fast")
    /\ Len(toProxy) <= 1
    /\ \A i \in DOMAIN toProxy :
          /\ toProxy[i].seq = client.seq
          /\ toProxy[i].kind = "Response" => client.seq = IF mode.clientTls THEN 2 ELSE 1
          /\ client.at # "start"
          /\ toClient = <<>>
    /\ client.at = "tls" => mode.clientTls

\* The server answers when it has been told everything.
ServerLeg ==
    /\ InARow(toServer, server.seq)
    /\ LastOnly(toServer, "SslRequest")
    /\ LastOnly(toUs, "Fast")
    /\ LastSent(toUs)
    /\ toUs # <<>> => toServer = <<>>
    /\ server.at = "start" => /\ phase \in {"greeting", "closed"}
                              /\ toServer = <<>> /\ toUs = <<>> /\ server.seq = 0

\* The phases before the server is answered.
Before == {"greeting", "response", "tlsResponse", "switch"}

\* Whose turn it is in each phase.  A passthrough counts both legs as one.
Turns ==
    /\ phase = "greeting" => /\ toClient = <<>> /\ toProxy = <<>>
                             /\ \A i \in DOMAIN toUs : toUs[i].kind = "Greeting"
    /\ phase \in Before => toServer = <<>> /\ server.seq = 0
    /\ phase \in Before \ {"greeting"} => toUs = <<>>
    /\ phase = "tlsResponse" => toClient = <<>> /\ (client.at = "tls" => toProxy = <<>>)
    /\ phase \in {"upstreamTls", "relaying", "replying", "proving"} => client.at # "start"
    /\ Proving => toClient = <<>> /\ toProxy = <<>> /\ client.seq = seq
    /\ Relays =>
          /\ toProxy = <<>>
          /\ \A i \in DOMAIN toClient : toClient[i].kind = "Fast"
          /\ \A i \in DOMAIN toUs : toUs[i].seq = client.seq + Len(toClient) + i
          /\ toServer # <<>> => toClient = <<>> /\ client.seq = server.seq + Len(toServer)
    /\ phase = "replying" =>
          /\ toUs = <<>> /\ toServer = <<>>
          /\ LastSent(toClient)
          /\ toProxy # <<>> => client.seq = server.seq + 1

Order    == inOrder /\ ClientLeg /\ ServerLeg /\ Turns
OrderInv == Claimed => Order

-----------------------------------------------------------------------------
(* Lemmas about the operators *)

\* What is left of a sequence.
LEMMA TailAt ==
    ASSUME NEW S, NEW s \in Seq(S), s # <<>>
    PROVE  /\ Len(s) \in Nat \ {0} /\ Len(Tail(s)) = Len(s) - 1
           /\ 1 \in DOMAIN s /\ Head(s) = s[1] /\ DOMAIN s = 1..Len(s)
           /\ Len(s) = 1 => Tail(s) = <<>>
           /\ Tail(s) \in Seq(S)
           /\ \A i \in DOMAIN Tail(s) : i \in Nat /\ i + 1 \in DOMAIN s /\ Tail(s)[i] = s[i + 1]
           /\ Tail(s) # <<>> => Len(s) > 1
<1>1. Len(s) \in Nat /\ Len(s) # 0 /\ DOMAIN s = 1..Len(s)
  BY EmptySeq, LenProperties
<1>2. Tail(s) \in Seq(S) /\ Len(Tail(s)) = Len(s) - 1
  BY HeadTailProperties
<1>3. 1 \in DOMAIN s /\ Head(s) = s[1]
  BY <1>1
<1>4. DOMAIN Tail(s) = 1..(Len(s) - 1)
  BY <1>1, <1>2, LenProperties
<1>5. \A i \in DOMAIN Tail(s) : i \in Nat /\ i + 1 \in DOMAIN s /\ Tail(s)[i] = s[i + 1]
  BY <1>1, <1>4
<1>6. Len(s) = 1 => Tail(s) = <<>>
  <2> SUFFICES ASSUME Len(s) = 1 PROVE Tail(s) = <<>>
    OBVIOUS
  <2>1. Len(Tail(s)) = 0
    BY <1>2
  <2> QED BY <1>2, <2>1, EmptySeq
<1>7. Tail(s) # <<>> => Len(s) > 1
  BY <1>1, <1>6
<1> QED BY <1>1, <1>2, <1>3, <1>5, <1>6, <1>7

\* The server answers with the numbers after the one it is answering.
LEMMA AnswersNumbered ==
    ASSUME NEW provers, NEW p \in Carried(provers), NEW answers \in ServerAnswers(p),
           mode \in Modes
    PROVE  /\ p.kind = "SslRequest" => answers = <<>>
           /\ \/ answers = <<>>
              \/ \E q \in Packets :
                    /\ q.seq = p.seq + 1 /\ answers = <<q>>
                    /\ q.kind \in {"Switch", "Full", "Ok", "Err", "Key"}
                    /\ q.kind = "Key" => p.kind = "KeyRequest"
              \/ \E f, o \in Packets :
                    /\ f.kind = "Fast" /\ f.seq = p.seq + 1
                    /\ o.kind = "Ok" /\ o.seq = p.seq + 2
                    /\ answers = <<f, o>>
<1>1. p \in Packets /\ p.seq \in Nat /\ p.seq + 1 \in Nat /\ p.seq + 1 + 1 = p.seq + 2
      /\ p.kind \in Requests \cup Proofs
  BY DEF Carried, Packets
<1>2. \A kind \in {"Ok", "Err", "Key", "Full", "Fast"}, n \in Nat :
         Packet(kind, n) \in Packets /\ Packet(kind, n).kind = kind /\ Packet(kind, n).seq = n
  BY DEF Packet, Packets, Kinds
<1>3. \A plugin \in Plugins :
         /\ Challenge("Switch", p.seq + 1, plugin, "server") \in Packets
         /\ Challenge("Switch", p.seq + 1, plugin, "server").kind = "Switch"
         /\ Challenge("Switch", p.seq + 1, plugin, "server").seq = p.seq + 1
  BY <1>1, MySqlAuthAssumption DEF Challenge, Packet, Packets, Kinds
<1>4. Verdict(p, p.seq + 1) \in {<<Packet("Ok", p.seq + 1)>>, <<Packet("Err", p.seq + 1)>>}
  BY DEF Verdict
<1>5. CASE p.kind = "SslRequest"
  BY <1>5 DEF ServerAnswers
<1>6. CASE p.kind = "KeyRequest"
  <2>1. answers = <<Packet("Key", p.seq + 1)>>
    BY <1>6 DEF ServerAnswers
  <2> QED BY <1>1, <1>2, <1>6, <2>1
<1>7. CASE p.kind \in {"Encrypted", "Cleartext"}
  <2>1. answers \in {<<Packet("Ok", p.seq + 1)>>, <<Packet("Err", p.seq + 1)>>}
    BY <1>4, <1>7 DEF ServerAnswers
  <2> QED BY <1>1, <1>2, <1>7, <2>1
<1>8. CASE p.kind \in {"Response", "Scramble"}
  <2>1. \/ \E plugin \in Plugins :
              answers = <<Challenge("Switch", p.seq + 1, plugin, "server")>>
        \/ answers = <<Packet("Full", p.seq + 1)>>
        \/ answers = <<Packet("Fast", p.seq + 1), Packet("Ok", p.seq + 1 + 1)>>
        \/ answers \in {<<Packet("Ok", p.seq + 1)>>, <<Packet("Err", p.seq + 1)>>}
    BY <1>4, <1>8 DEF ServerAnswers
  <2>2. CASE answers = <<Packet("Fast", p.seq + 1), Packet("Ok", p.seq + 1 + 1)>>
    BY <1>1, <1>2, <1>8, <2>2
  <2>3. CASE \E plugin \in Plugins :
                answers = <<Challenge("Switch", p.seq + 1, plugin, "server")>>
    BY <1>3, <1>8, <2>3
  <2>4. CASE answers \in {<<Packet("Full", p.seq + 1)>>, <<Packet("Ok", p.seq + 1)>>,
                          <<Packet("Err", p.seq + 1)>>}
    BY <1>1, <1>2, <1>8, <2>4
  <2> QED BY <2>1, <2>2, <2>3, <2>4
<1> QED BY <1>1, <1>5, <1>6, <1>7, <1>8 DEF Requests, Proofs

\* The packets on their way are packets.
LEMMA OnTheWire ==
    ASSUME AuthInv
    PROVE  /\ toProxy \in Seq(Packets) /\ toClient \in Seq(Packets)
           /\ toServer \in Seq(Packets) /\ toUs \in Seq(Packets)
           /\ toServer \in Seq(Carried(Provers)) /\ toProxy \in Seq(Carried({"none", "client"}))
           /\ mode \in Modes /\ client.seq \in Nat /\ server.seq \in Nat /\ seq \in Nat
  BY SeqMonotonic DEF AuthInv, Shapes, Wires, Carried, Earned

-----------------------------------------------------------------------------
(* Every step keeps the numbers in order *)

\* The server's greeting, number 0.
LEMMA GreetInOrder ==
    ASSUME AuthInv, Order, Greet
    PROVE  Order'
<1>1. /\ server.at = "start" /\ server' = [server EXCEPT !.at = "await"]
      /\ toUs' = <<Challenge("Greeting", 0, mode.greeting, "server")>>
      /\ UNCHANGED <<mode, phase, seq, client, toProxy, toClient, toServer, inOrder>>
  BY DEF Greet, progress
<1>2. server'.at = "await" /\ server'.seq = server.seq
  BY <1>1 DEF AuthInv, Shapes
<1>3. ClientLeg'
  BY <1>1 DEF Order, ClientLeg, LastOnly
<1>4. ServerLeg'
  <2>1. toServer = <<>> /\ server.seq = 0
    BY <1>1 DEF Order, ServerLeg
  <2>2. toUs'[1].seq = 0 /\ Len(toUs') = 1 /\ DOMAIN toUs' = {1}
    <3>1. Challenge("Greeting", 0, mode.greeting, "server").seq = 0
      BY DEF Challenge, Packet
    <3> QED BY <1>1, <3>1
  <2> QED BY <1>1, <1>2, <2>1, <2>2 DEF ServerLeg, LastOnly, LastSent, InARow
<1>5. Turns'
  <2>1. phase \in {"greeting", "closed"}
    BY <1>1 DEF Order, ServerLeg
  <2>2. toUs'[1].kind = "Greeting" /\ DOMAIN toUs' = {1}
    <3>1. Challenge("Greeting", 0, mode.greeting, "server").kind = "Greeting"
      BY DEF Challenge, Packet
    <3> QED BY <1>1, <3>1
  <2> QED BY <1>1, <1>2, <2>1, <2>2 DEF Order, Turns, Proving, Relays, Before
<1> QED BY <1>1, <1>3, <1>4, <1>5 DEF Order

\* The server takes the next number, and answers with those after it.
LEMMA ServeInOrder ==
    ASSUME AuthInv, Order, Serve
    PROVE  Order'
<1> DEFINE p == Head(toServer)
<1>1. /\ server.at = "await" /\ toServer # <<>> /\ toServer' = Tail(toServer)
      /\ inOrder' = (inOrder /\ p.seq = server.seq + 1)
      /\ UNCHANGED <<mode, phase, seq, client, toProxy, toClient>>
  BY DEF Serve, progress
<1>2. PICK answers \in ServerAnswers(p) :
          /\ toUs' = toUs \o answers
          /\ server' =
               IF answers = <<>> THEN [server EXCEPT !.seq = p.seq, !.at = "tls"]
               ELSE LET last == answers[Len(answers)]
                    IN CASE last.kind = "Ok"     -> Settled("accepted")
                         [] last.kind = "Err"    -> Settled("rejected")
                         [] last.kind = "Switch" ->
                              [server EXCEPT !.seq = last.seq, !.switches = @ + 1]
                         [] OTHER -> [server EXCEPT !.seq = last.seq]
  BY DEF Serve
<1>3. /\ p = toServer[1] /\ p.seq = server.seq + 1 /\ p.seq \in Nat /\ p \in Carried(Provers)
      /\ toUs = <<>> /\ Len(toServer) \in Nat \ {0} /\ server.seq \in Nat /\ client.seq \in Nat
      /\ Len(toServer') = Len(toServer) - 1
      /\ \A i \in DOMAIN toServer' :
            i \in Nat /\ i + 1 \in DOMAIN toServer /\ toServer'[i] = toServer[i + 1]
      /\ DOMAIN toServer = 1..Len(toServer)
  <2>1. p = toServer[1] /\ 1 \in DOMAIN toServer
    BY <1>1, OnTheWire, TailAt
  <2>2. p.seq = server.seq + 1 /\ toUs = <<>>
    BY <1>1, <2>1 DEF Order, ServerLeg, InARow
  <2>3. p \in Carried(Provers)
    BY <1>1, OnTheWire, HeadTailProperties
  <2> QED BY <1>1, <2>1, <2>2, <2>3, OnTheWire, TailAt
<1>4. server \in [at : {"await"}, seq : Nat, switches : Nat] /\ mode \in Modes
  BY <1>1 DEF AuthInv, Shapes
<1> HIDE DEF p
<1>5. phase \notin Before \cup {"replying"}
  BY <1>1 DEF Order, Turns, Proving, Relays
<1>6. Proving => toClient = <<>> /\ toProxy = <<>> /\ client.seq = seq
  BY DEF Order, Turns, Proving, Relays
<1>7. Relays =>
         toProxy = <<>> /\ toClient = <<>> /\ client.seq = server.seq + Len(toServer)
  BY <1>1 DEF Order, Turns, Proving, Relays
<1>8. ClientLeg' /\ inOrder'
  BY <1>1, <1>3 DEF Order, ClientLeg, LastOnly
<1>9. CASE Len(toServer) > 1
  <2>1. p.kind = "SslRequest"
    BY <1>3, <1>9 DEF Order, ServerLeg, LastOnly
  <2>2. answers = <<>>
    BY <1>3, <1>4, <2>1, AnswersNumbered
  <2>3. toUs' = <<>>
    BY <1>2, <1>3, <2>2
  <2>4. server' = [at |-> "tls", seq |-> p.seq, switches |-> server.switches]
    BY <1>2, <1>4, <2>2
  <2>5. InARow(toServer, server.seq) /\ LastOnly(toServer, "SslRequest")
    BY DEF Order, ServerLeg
  <2>6. InARow(toServer', server'.seq)
    <3> SUFFICES ASSUME NEW i \in DOMAIN toServer'
                 PROVE  toServer'[i].seq = server'.seq + i
      BY DEF InARow
    <3>1. toServer[i + 1].seq = server.seq + (i + 1) /\ i \in Nat
      BY <1>3, <2>5 DEF InARow
    <3>2. server'.seq = p.seq /\ toServer'[i] = toServer[i + 1]
      BY <1>3, <2>4
    <3>3. \A a, b \in Nat : a + (b + 1) = (a + 1) + b
      OBVIOUS
    <3>4. server.seq + (i + 1) = (server.seq + 1) + i
      BY <1>3, <3>1, <3>3
    <3> QED BY <1>3, <3>1, <3>2, <3>4
  <2>7. LastOnly(toServer', "SslRequest")
    BY <1>3, <2>5 DEF LastOnly
  <2>8. ServerLeg'
    BY <2>3, <2>4, <2>6, <2>7 DEF ServerLeg, LastOnly, LastSent
  <2>9. Turns'
    <3>1. Relays => client.seq = server'.seq + Len(toServer')
      BY <1>3, <1>7, <2>4
    <3>2. client.at # "start" \/ phase \notin {"upstreamTls", "relaying", "replying", "proving"}
      BY DEF Order, Turns, Proving, Relays
    <3> QED BY <1>1, <1>5, <1>6, <1>7, <2>3, <3>1, <3>2 DEF Turns, Proving, Relays, Before
  <2> QED BY <1>8, <2>8, <2>9 DEF Order
<1>10. CASE Len(toServer) = 1
  <2>1. toServer' = <<>>
    BY <1>1, <1>10, OnTheWire, TailAt
  <2>2. toUs' = answers
    BY <1>2, <1>3, <1>4, AnswersNumbered
  <2> DEFINE Answers == /\ LastOnly(toUs', "Fast") /\ LastSent(toUs)'
                        /\ server'.at # "start"
                        /\ \A i \in DOMAIN toUs' : toUs'[i].seq = p.seq + i
  <2>3. ASSUME answers = <<>>
        PROVE  Answers
    <3>1. server' = [at |-> "tls", seq |-> p.seq, switches |-> server.switches]
      BY <1>2, <1>4, <2>3
    <3>2. toUs' = <<>> /\ DOMAIN toUs' = {} /\ server'.at # "start"
      BY <2>2, <2>3, <3>1
    <3> QED BY <3>2 DEF LastOnly, LastSent
  <2>4. ASSUME NEW q \in Packets, q.seq = p.seq + 1, answers = <<q>>
        PROVE  Answers
    <3>1. /\ Len(toUs') = 1 /\ DOMAIN toUs' = {1} /\ toUs'[1] = q
          /\ answers # <<>> /\ answers[Len(answers)] = q
      BY <2>2, <2>4
    <3>2. \/ q.kind \in {"Ok", "Err"} /\ server' \in {Settled("accepted"), Settled("rejected")}
          \/ server' = [server EXCEPT !.seq = q.seq, !.switches = @ + 1]
          \/ server' = [server EXCEPT !.seq = q.seq]
      BY <1>2, <3>1
    <3>3. server'.at # "start" /\ (q.kind \notin {"Ok", "Err"} => server'.seq = q.seq)
      <4>1. CASE server' \in {Settled("accepted"), Settled("rejected")} /\ q.kind \in {"Ok", "Err"}
        BY <4>1 DEF Settled
      <4>2. CASE server' = [server EXCEPT !.seq = q.seq, !.switches = @ + 1]
        BY <1>4, <4>2
      <4>3. CASE server' = [server EXCEPT !.seq = q.seq]
        BY <1>4, <4>3
      <4> QED BY <3>2, <4>1, <4>2, <4>3
    <3> QED BY <1>3, <2>4, <3>1, <3>3 DEF LastOnly, LastSent
  <2>5. ASSUME NEW f \in Packets, NEW o \in Packets, f.kind = "Fast", f.seq = p.seq + 1,
               o.kind = "Ok", o.seq = p.seq + 2, answers = <<f, o>>
        PROVE  Answers
    <3>1. /\ Len(toUs') = 2 /\ DOMAIN toUs' = {1, 2} /\ toUs'[1] = f /\ toUs'[2] = o
          /\ answers # <<>> /\ answers[Len(answers)] = o
      BY <2>2, <2>5
    <3>2. server' = Settled("accepted")
      BY <1>2, <2>5, <3>1
    <3> QED BY <1>3, <2>5, <3>1, <3>2 DEF LastOnly, LastSent, Settled
  <2> HIDE DEF Answers
  <2>6. Answers
    BY <1>3, <1>4, <2>3, <2>4, <2>5, AnswersNumbered
  <2> USE DEF Answers
  <2>7. ServerLeg'
    BY <2>1, <2>6 DEF ServerLeg, InARow, LastOnly
  <2>8. Turns'
    <3>1. Relays =>
             \A i \in DOMAIN toUs' : toUs'[i].seq = client.seq + Len(toClient) + i
      <4>1. Relays => Len(toClient) = 0 /\ client.seq = p.seq
        BY <1>3, <1>7, <1>10
      <4>2. DOMAIN toUs' \subseteq Nat
        BY <2>2, <1>3, <1>4, AnswersNumbered
      <4> QED BY <1>3, <2>6, <4>1, <4>2
    <3>2. client.at # "start" \/ phase \notin {"upstreamTls", "relaying", "replying", "proving"}
      BY DEF Order, Turns, Proving, Relays
    <3> QED BY <1>1, <1>5, <1>6, <1>7, <2>1, <3>1, <3>2 DEF Turns, Proving, Relays, Before
  <2> QED BY <1>8, <2>7, <2>8 DEF Order
<1> QED BY <1>3, <1>9, <1>10

\* What a client hears next in its exchange carries the number it expects.
LEMMA HeardInOrder ==
    ASSUME AuthInv, Order, NEW kind \in {"Switch", "Full", "Key", "Fast", "Ok", "Err"},
           Hear(kind)
    PROVE  /\ toClient # <<>> /\ toClient' = Tail(toClient) /\ toProxy = <<>> /\ inOrder'
           /\ Head(toClient) = toClient[1] /\ Head(toClient).seq = client.seq + 1
           /\ kind # "Fast" => Len(toClient) = 1 /\ toClient' = <<>>
           /\ phase \notin {"greeting", "tlsResponse"} /\ ~Proving
           /\ Relays => kind = "Fast"
           /\ phase = "replying" /\ kind \in {"Switch", "Full", "Key"} =>
                 Head(toClient).seq = server.seq
<1>1. /\ toClient # <<>> /\ toClient' = Tail(toClient) /\ Head(toClient).kind = kind
      /\ inOrder' = (inOrder /\ Head(toClient).seq = client.seq + 1)
  BY DEF Hear
<1>2. /\ Head(toClient) = toClient[1] /\ 1 \in DOMAIN toClient
      /\ Len(toClient) \in Nat \ {0} /\ (Len(toClient) = 1 => Tail(toClient) = <<>>)
  BY <1>1, OnTheWire, TailAt
<1>3. Head(toClient).seq = client.seq + 1
  BY <1>1, <1>2 DEF Order, ClientLeg
<1>4. Len(toProxy) = 0
  <2>1. Len(toProxy) \in Nat /\ Len(toProxy) <= 1 /\ DOMAIN toProxy = 1..Len(toProxy)
    BY OnTheWire, LenProperties DEF Order, ClientLeg
  <2>2. 1 \notin DOMAIN toProxy
    BY <1>1 DEF Order, ClientLeg
  <2> QED BY <2>1, <2>2
<1>5. toProxy = <<>>
  BY <1>4, OnTheWire, EmptySeq
<1>6. kind # "Fast" => Len(toClient) = 1
  <2>1. 1 < Len(toClient) => toClient[1].kind = "Fast"
    BY <1>2 DEF Order, ClientLeg, LastOnly
  <2>2. toClient[1].kind = kind
    BY <1>1, <1>2
  <2>3. Len(toClient) \in Nat \ {0}
    BY <1>2
  <2> QED BY <2>1, <2>2, <2>3
<1>7. phase \notin {"greeting", "tlsResponse"} /\ ~Proving
  BY <1>1 DEF Order, Turns, Proving, Relays
<1>8. Relays => kind = "Fast"
  BY <1>1, <1>2 DEF Order, Turns, Proving, Relays
<1>9. phase = "replying" /\ kind \in {"Switch", "Full", "Key"} => Head(toClient).seq = server.seq
  BY <1>1, <1>2, <1>6 DEF Order, Turns, Proving, Relays, LastSent
<1> QED BY <1>1, <1>2, <1>3, <1>5, <1>6, <1>7, <1>8, <1>9 DEF Order

\* A client that has heard everything takes the turn.
LEMMA SpeaksInOrder ==
    ASSUME AuthInv, Order, Unsent, NEW p, NEW at \in {"tls", "await"}, NEW nonce,
           Reply(p, at, nonce), p.seq \in Nat, inOrder', toProxy = <<>>, toClient' = <<>>,
           phase \notin {"greeting", "upstreamTls", "relaying", "proving"},
           p.kind = "Response" => p.seq = IF mode.clientTls THEN 2 ELSE 1,
           at = "tls" => mode.clientTls /\ phase # "tlsResponse",
           phase = "tlsResponse" => toClient = <<>>,
           phase = "replying" => p.seq = server.seq + 1
    PROVE  Order'
<1>1. /\ toProxy' = <<p>> /\ client'.seq = p.seq /\ client'.at = at
      /\ UNCHANGED <<mode, phase, seq, server, toServer, toUs>>
  BY DEF Reply, Unsent, progress
<1>2. Len(toProxy') = 1 /\ DOMAIN toProxy' = {1} /\ toProxy'[1] = p
  BY <1>1
<1>3. ClientLeg'
  BY <1>1, <1>2 DEF ClientLeg, LastOnly
<1>4. ServerLeg'
  BY <1>1 DEF Order, ServerLeg, InARow, LastOnly, LastSent
<1>5. Turns'
  BY <1>1 DEF Order, Turns, Proving, Relays, Before, LastSent
<1> QED BY <1>3, <1>4, <1>5 DEF Order

\* A client that has heard a packet has the next number ahead, or is done.
LEMMA ListensInOrder ==
    ASSUME AuthInv, Order, Unsent, toProxy' = toProxy,
           NEW kind \in {"Fast", "Ok", "Err"}, Hear(kind),
           \/ kind = "Fast" /\ client' = [client EXCEPT !.seq = Head(toClient).seq]
           \/ kind # "Fast" /\ client'.at \in {"in", "failed"} /\ client'.seq = 0
    PROVE  Order'
<1>1. UNCHANGED <<mode, phase, seq, server, toServer, toUs>>
  BY DEF Unsent, progress
<1>2. /\ toProxy = <<>> /\ inOrder' /\ phase \notin {"greeting", "tlsResponse"} /\ ~Proving
      /\ Head(toClient).seq = client.seq + 1 /\ toClient # <<>> /\ toClient' = Tail(toClient)
  BY HeardInOrder
<1>3. ServerLeg'
  BY <1>1 DEF Order, ServerLeg, InARow, LastOnly, LastSent
<1>4. CASE kind # "Fast"
  <2>1. toClient' = <<>> /\ ~Relays
    BY <1>4, HeardInOrder
  <2>2. ClientLeg'
    BY <1>1, <1>2, <1>4, <2>1 DEF Order, ClientLeg, LastOnly
  <2>3. Turns'
    BY <1>1, <1>2, <1>4, <2>1 DEF Order, Turns, Proving, Relays, Before, LastSent
  <2> QED BY <1>2, <1>3, <2>2, <2>3 DEF Order
<1>5. CASE kind = "Fast"
  <2>1. /\ client' = [client EXCEPT !.seq = Head(toClient).seq]
        /\ client'.at = client.at /\ client'.seq = client.seq + 1
        /\ client.seq \in Nat
    BY <1>2, <1>5 DEF AuthInv, Shapes
  <2>2. /\ Len(toClient) \in Nat \ {0} /\ Len(toClient') = Len(toClient) - 1
        /\ \A i \in DOMAIN toClient' :
              i \in Nat /\ i + 1 \in DOMAIN toClient /\ toClient'[i] = toClient[i + 1]
    BY <1>2, OnTheWire, TailAt
  <2>3. \A a, b \in Nat : a + (b + 1) = (a + 1) + b
    OBVIOUS
  <2>4. ClientLeg'
    <3>1. ASSUME NEW i \in DOMAIN toClient', toClient'[i].kind # "Greeting"
          PROVE  toClient'[i].seq = client'.seq + i
      <4>1. toClient[i + 1].seq = client.seq + (i + 1)
        BY <2>2, <3>1 DEF Order, ClientLeg
      <4> QED BY <2>1, <2>2, <2>3, <4>1
    <3>2. LastOnly(toClient', "Fast")
      BY <2>2 DEF Order, ClientLeg, LastOnly
    <3> QED BY <1>1, <1>2, <2>1, <3>1, <3>2 DEF Order, ClientLeg
  <2>5. Turns'
    <3>1. ASSUME Relays, NEW i \in DOMAIN toUs
          PROVE  toUs[i].seq = client'.seq + Len(toClient') + i
      <4>1. toUs[i].seq = client.seq + Len(toClient) + i
        BY <3>1 DEF Order, Turns, Proving, Relays
      <4>2. (client.seq + 1) + (Len(toClient) - 1) = client.seq + Len(toClient)
        BY <2>1, <2>2
      <4> QED BY <2>1, <2>2, <4>1, <4>2
    <3>2. Relays => \A i \in DOMAIN toClient' : toClient'[i].kind = "Fast"
      BY <2>2 DEF Order, Turns, Proving, Relays
    <3>3. Relays => toServer = <<>>
      BY <1>2 DEF Order, Turns, Proving, Relays
    <3>4. phase = "replying" => LastSent(toClient')
      BY <2>2 DEF Order, Turns, Proving, Relays, LastSent
    <3>5. LastSent(toClient)' <=> LastSent(toClient')
      BY <1>1 DEF LastSent
    <3> QED BY <1>1, <1>2, <2>1, <3>1, <3>2, <3>3, <3>4, <3>5 DEF Order, Turns, Proving,
               Relays, Before
  <2> QED BY <1>2, <1>3, <2>4, <2>5 DEF Order
<1> QED BY <1>4, <1>5

\* The client's steps (ClientStep).
LEMMA ClientInOrder ==
    ASSUME AuthInv, Order, ClientStep
    PROVE  Order'
<1>1. client \in [at : {"start", "tls", "await", "in", "failed"}, seq : Nat,
                  nonce : {"none", "server", "proxy"}]
  BY DEF AuthInv, Shapes
<1>2. CASE MeetsProxy
  <2>1. /\ client.at = "start" /\ toClient # <<>> /\ Head(toClient).kind = "Greeting"
        /\ toClient' = Tail(toClient) /\ inOrder' /\ Unsent
    BY <1>2 DEF MeetsProxy, Order
  <2>2. Len(toClient) \in Nat \ {0} /\ 1 \in DOMAIN toClient /\ Head(toClient) = toClient[1]
    BY <2>1, OnTheWire, TailAt
  <2>3. 1 < Len(toClient) => toClient[1].kind = "Fast"
    BY <2>2 DEF Order, ClientLeg, LastOnly
  <2>4. toClient' = <<>>
    BY <2>1, <2>2, <2>3, OnTheWire, TailAt
  <2>5. toProxy = <<>>
    <3>1. toProxy # <<>> => 1 \in DOMAIN toProxy
      BY OnTheWire, TailAt
    <3> QED BY <2>1, <3>1 DEF Order, ClientLeg
  <2>6. phase \notin {"greeting", "tlsResponse", "upstreamTls", "relaying",
                   "replying", "proving"}
    BY <2>1 DEF Order, Turns, Proving, Relays
  <2>7. CASE mode.clientTls
    <3>1. Reply(Packet("SslRequest", 1), "tls", Head(toClient).nonce)
      BY <1>2, <2>7 DEF MeetsProxy
    <3>2. Packet("SslRequest", 1).seq = 1 /\ Packet("SslRequest", 1).kind = "SslRequest"
      BY DEF Packet
    <3> QED BY <2>1, <2>4, <2>5, <2>6, <2>7, <3>1, <3>2, SpeaksInOrder
  <2>8. CASE ~mode.clientTls
    <3>1. PICK plugin \in Plugins :
            Reply(Proof("Response", 1, "client", plugin, Head(toClient).nonce), "await",
                  Head(toClient).nonce)
      BY <1>2, <2>8 DEF MeetsProxy
    <3>2. Proof("Response", 1, "client", plugin, Head(toClient).nonce).seq = 1
      BY DEF Proof, Packet
    <3> QED BY <2>1, <2>4, <2>5, <2>6, <2>8, <3>1, <3>2, SpeaksInOrder
  <2> QED BY <2>7, <2>8
<1>3. CASE RespondsOverTls
  <2>1. PICK plugin \in Plugins :
          Reply(Proof("Response", 2, "client", plugin, client.nonce), "await", client.nonce)
    BY <1>3 DEF RespondsOverTls
  <2>2. client.at = "tls" /\ phase = "tlsResponse" /\ Unsent /\ toClient' = toClient /\ inOrder'
    BY <1>3 DEF RespondsOverTls, Order
  <2>3. toClient = <<>> /\ toProxy = <<>> /\ mode.clientTls
    BY <2>2 DEF Order, Turns, Proving, Relays, ClientLeg
  <2>4. Proof("Response", 2, "client", plugin, client.nonce).seq = 2
    BY DEF Proof, Packet
  <2> QED BY <2>1, <2>2, <2>3, <2>4, SpeaksInOrder
<1>4. ASSUME NEW kind \in {"Switch", "Full", "Key"}, Hear(kind), Unsent,
             NEW p, p.seq = Head(toClient).seq + 1, p.kind # "Response",
             NEW nonce, Reply(p, "await", nonce)
      PROVE  Order'
  <2>1. /\ toProxy = <<>> /\ inOrder' /\ toClient' = <<>>
        /\ phase \notin {"greeting", "tlsResponse", "upstreamTls", "proving",
                      "relaying"}
        /\ phase = "replying" => p.seq = server.seq + 1
    BY <1>4, HeardInOrder DEF Proving, Relays
  <2>2. p.seq \in Nat
    BY <1>4, HeardInOrder, ClientHears
  <2> QED BY <1>4, <2>1, <2>2, SpeaksInOrder
<1>5. CASE Switches
  BY <1>4, <1>5 DEF Switches, Proof, Packet
<1>6. CASE SendsPassword
  <2>1. Hear("Full") /\ Unsent
    BY <1>6 DEF SendsPassword
  <2>2. \E q \in {Proof("Cleartext", Head(toClient).seq + 1, "client", "sha2", "none"),
                  Packet("KeyRequest", Head(toClient).seq + 1),
                  Proof("Encrypted", Head(toClient).seq + 1, "client", "sha2", "none")} :
           Reply(q, "await", client.nonce)
    BY <1>6 DEF SendsPassword
  <2>3. PICK q \in {Proof("Cleartext", Head(toClient).seq + 1, "client", "sha2", "none"),
                    Packet("KeyRequest", Head(toClient).seq + 1),
                    Proof("Encrypted", Head(toClient).seq + 1, "client", "sha2", "none")} :
           Reply(q, "await", client.nonce)
    BY <2>2
  <2>4. q.seq = Head(toClient).seq + 1 /\ q.kind # "Response"
    <3>1. \A n : Packet("KeyRequest", n).seq = n /\ Packet("KeyRequest", n).kind = "KeyRequest"
      BY DEF Packet
    <3>2. \A n, kind : /\ Proof(kind, n, "client", "sha2", "none").seq = n
                       /\ Proof(kind, n, "client", "sha2", "none").kind = kind
      BY DEF Proof, Packet
    <3> QED BY <3>1, <3>2
  <2> QED BY <1>4, <2>1, <2>3, <2>4
<1>7. CASE UsesKey
  BY <1>4, <1>7 DEF UsesKey, Proof, Packet
<1>8. CASE Waits
  BY <1>8, ListensInOrder DEF Waits
<1>9. CASE Learns("Ok", "in")
  <2>1. client'.at = "in" /\ client'.seq = 0
    BY <1>1, <1>9 DEF Learns
  <2> QED BY <1>9, <2>1, ListensInOrder DEF Learns
<1>10. CASE Learns("Err", "failed")
  <2>1. client'.at = "failed" /\ client'.seq = 0
    BY <1>1, <1>10 DEF Learns
  <2> QED BY <1>10, <2>1, ListensInOrder DEF Learns
<1> QED BY <1>2, <1>3, <1>5, <1>6, <1>7, <1>8, <1>9, <1>10 DEF ClientStep

\* What the proxy takes from the client is all the client has said.
LEMMA TakenFromClient ==
    ASSUME AuthInv, Order, TakeFromClient
    PROVE  /\ Head(toProxy).seq = client.seq /\ Head(toProxy) \in Packets
           /\ toProxy # <<>> /\ toProxy' = <<>> /\ toClient = <<>> /\ client.at # "start"
           /\ Head(toProxy).kind = "Response" => client.seq = IF mode.clientTls THEN 2 ELSE 1
<1>1. toProxy # <<>> /\ toProxy' = Tail(toProxy)
  BY DEF TakeFromClient
<1>2. 1 \in DOMAIN toProxy /\ Head(toProxy) = toProxy[1] /\ Len(toProxy) \in Nat \ {0}
  BY <1>1, OnTheWire, TailAt
<1>3. Len(toProxy) = 1
  <2>1. Len(toProxy) \in Nat /\ Len(toProxy) # 0
    BY <1>2
  <2>2. Len(toProxy) <= 1
    BY DEF Order, ClientLeg
  <2>3. \A n \in Nat : n # 0 /\ n <= 1 => n = 1
    OBVIOUS
  <2> QED BY <2>1, <2>2, <2>3
<1>4. toProxy' = <<>>
  BY <1>1, <1>3, OnTheWire, TailAt
<1>5. Head(toProxy) \in Packets
  BY <1>1, OnTheWire, HeadTailProperties
<1> QED BY <1>1, <1>2, <1>4, <1>5 DEF Order, ClientLeg

\* What the proxy takes from the server is its last word, or the result of fast
\* authentication.
LEMMA TakenFromServer ==
    ASSUME AuthInv, Order, TakeFromServer, server' = server
    PROVE  /\ Head(toUs) = toUs[1] /\ 1 \in DOMAIN toUs /\ Head(toUs) \in Packets
           /\ toUs # <<>> /\ toServer = <<>> /\ server.at # "start"
           /\ LastOnly(toUs', "Fast") /\ LastSent(toUs)'
           /\ Head(toUs).kind # "Fast" =>
                 /\ toUs' = <<>>
                 /\ Head(toUs).kind \notin {"Ok", "Err"} => Head(toUs).seq = server.seq
           /\ \A i \in DOMAIN toUs' :
                 i \in Nat /\ i + 1 \in DOMAIN toUs /\ toUs'[i] = toUs[i + 1]
<1>1. toUs # <<>> /\ toUs' = Tail(toUs)
  BY DEF TakeFromServer
<1>2. /\ Head(toUs) = toUs[1] /\ 1 \in DOMAIN toUs /\ Len(toUs) \in Nat \ {0}
      /\ Len(toUs') = Len(toUs) - 1 /\ (Len(toUs) = 1 => toUs' = <<>>)
      /\ \A i \in DOMAIN toUs' : i \in Nat /\ i + 1 \in DOMAIN toUs /\ toUs'[i] = toUs[i + 1]
  BY <1>1, OnTheWire, TailAt
<1>3. Head(toUs) \in Packets
  BY <1>1, OnTheWire, HeadTailProperties
<1>4. toServer = <<>> /\ server.at # "start"
  BY <1>1 DEF Order, ServerLeg
<1>5. LastOnly(toUs', "Fast") /\ LastSent(toUs)'
  <2>1. LastOnly(toUs, "Fast") /\ LastSent(toUs)
    BY DEF Order, ServerLeg
  <2> QED BY <1>2, <2>1 DEF LastOnly, LastSent
<1>6. ASSUME Head(toUs).kind # "Fast"
      PROVE  /\ toUs' = <<>>
             /\ Head(toUs).kind \notin {"Ok", "Err"} => Head(toUs).seq = server.seq
  <2>1. 1 < Len(toUs) => toUs[1].kind = "Fast"
    BY <1>2 DEF Order, ServerLeg, LastOnly
  <2>2. toUs[1].kind # "Fast"
    BY <1>2, <1>6
  <2>3. Len(toUs) = 1
    <3>1. Len(toUs) \in Nat /\ Len(toUs) # 0
      BY <1>2
    <3>2. ~(1 < Len(toUs))
      BY <2>1, <2>2
    <3>3. \A n \in Nat : n # 0 /\ ~(1 < n) => n = 1
      OBVIOUS
    <3> QED BY <3>1, <3>2, <3>3
  <2> QED BY <1>2, <2>3 DEF Order, ServerLeg, LastSent
<1> QED BY <1>1, <1>2, <1>3, <1>4, <1>5, <1>6

\* The response to the server starts its numbers, behind the request for TLS if any.
LEMMA FirstInOrder ==
    ASSUME NEW p \in Packets, mode \in Modes
    PROVE  LET wire == FirstUpstream(p)
           IN /\ Len(wire) = IF mode.upstreamTls THEN 2 ELSE 1
              /\ InARow(wire, 0) /\ LastOnly(wire, "SslRequest")
<1>1. \A n \in Nat : [p EXCEPT !.seq = n].seq = n
  BY DEF Packets
<1>2. Packet("SslRequest", 1).seq = 1 /\ Packet("SslRequest", 1).kind = "SslRequest"
  BY DEF Packet
<1>3. CASE mode.upstreamTls
  <2> DEFINE wire == <<Packet("SslRequest", 1), [p EXCEPT !.seq = 2]>>
  <2>1. FirstUpstream(p) = wire /\ Len(wire) = 2 /\ DOMAIN wire = {1, 2}
    BY <1>3 DEF FirstUpstream
  <2>2. wire[1].seq = 1 /\ wire[2].seq = 2 /\ wire[1].kind = "SslRequest"
    BY <1>1, <1>2
  <2> HIDE DEF wire
  <2> QED BY <1>3, <2>1, <2>2 DEF InARow, LastOnly
<1>4. CASE ~mode.upstreamTls
  <2> DEFINE wire == <<[p EXCEPT !.seq = 1]>>
  <2>1. FirstUpstream(p) = wire /\ Len(wire) = 1 /\ DOMAIN wire = {1}
    BY <1>4 DEF FirstUpstream
  <2>2. wire[1].seq = 1
    BY <1>1
  <2> HIDE DEF wire
  <2> QED BY <1>4, <2>1, <2>2 DEF InARow, LastOnly
<1> QED BY <1>3, <1>4

\* One packet for a client that has heard everything.
LEMMA TellsInOrder ==
    ASSUME NEW p, p.seq = client.seq + 1, toClient = <<>>, toProxy' = <<>>, client' = client,
           mode' = mode, Order, toClient' = Append(toClient, p)
    PROVE  /\ ClientLeg' /\ toClient' = <<p>>
<1>1. toClient' = <<p>> /\ Len(toClient') = 1 /\ DOMAIN toClient' = {1} /\ toClient'[1] = p
  OBVIOUS
<1> QED BY <1>1 DEF Order, ClientLeg, LastOnly

\* The greeting goes to the client, which has said nothing.
LEMMA GreetingInOrder ==
    ASSUME AuthInv, Order, Greeting
    PROVE  Order'
<1>1. /\ phase = "greeting" /\ TakeFromServer /\ phase' = "response"
      /\ toClient' = IF mode.terminating
                     THEN <<Challenge("Greeting", 0, mode.plugin, "proxy")>>
                     ELSE <<Head(toUs)>>
      /\ UNCHANGED <<seq, toProxy, toServer, mode, client, server, inOrder>>
  BY DEF Greeting, World
<1>2. /\ toServer = <<>> /\ server.seq = 0 /\ toProxy = <<>>
      /\ server.at # "start" /\ Head(toUs).kind = "Greeting" /\ toUs' = <<>>
  BY <1>1, TakenFromServer DEF Order, Turns, Proving, Relays, Before
<1>3. /\ Len(toClient') = 1 /\ DOMAIN toClient' = {1} /\ toClient'[1].kind = "Greeting"
  BY <1>1, <1>2 DEF Challenge, Packet
<1>4. ClientLeg'
  BY <1>1, <1>2, <1>3 DEF Order, ClientLeg, LastOnly
<1>5. ServerLeg' /\ Turns'
  BY <1>1, <1>2 DEF ServerLeg, InARow, LastOnly, LastSent, Turns, Proving, Relays, Before
<1> QED BY <1>1, <1>4, <1>5 DEF Order

\* The client's request for TLS is for the proxy.
LEMMA UpgradeInOrder ==
    ASSUME AuthInv, Order, UpgradeClient
    PROVE  Order'
<1>1. /\ phase = "response" /\ TakeFromClient /\ phase' = "tlsResponse"
      /\ UNCHANGED <<seq, toClient, toServer, toUs, mode, client, server, inOrder>>
  BY DEF UpgradeClient, World
<1>2. toProxy' = <<>> /\ toClient = <<>>
  BY <1>1, TakenFromClient
<1>3. ClientLeg' /\ ServerLeg' /\ Turns'
  BY <1>1, <1>2 DEF Order, ClientLeg, ServerLeg, InARow, LastOnly, LastSent, Turns,
                    Proving, Relays, Before
<1> QED BY <1>1, <1>3 DEF Order

\* authenticate_client: the next number for the client, the first for the server.
LEMMA VerifyInOrder ==
    ASSUME AuthInv, Order, World, mode.terminating, phase \in Before \ {"greeting"}, TakeFromClient,
           Verify(Head(toProxy)), toUs' = toUs
    PROVE  Order'
<1>1. /\ UNCHANGED <<mode, client, server, inOrder, toUs>> /\ seq' = Head(toProxy).seq
  BY DEF World, Verify
<1>2. /\ Head(toProxy).seq = client.seq /\ toProxy' = <<>> /\ toClient = <<>>
      /\ client.at # "start" /\ Len(toProxy) \in Nat
  BY TakenFromClient, OnTheWire, LenProperties
<1>3. toServer = <<>> /\ toUs = <<>> /\ server.seq = 0 /\ server.at # "start"
  BY DEF Order, Turns, Proving, Relays, ServerLeg, Before
<1>4. CASE AuthenticateUpstream /\ toClient' = toClient
  <2> DEFINE p == Proof("Response", 0, "proxy", mode.greeting, "server")
  <2>1. p \in Packets
    <3>1. "Response" \in Kinds /\ mode.greeting \in {"native", "sha2", "none"}
      BY ModeShape, MySqlAuthAssumption, OnTheWire, AllKinds
    <3> QED BY <3>1, ProofShape
  <2>2. InARow(toServer', 0) /\ LastOnly(toServer', "SslRequest")
    BY <1>4, <2>1, OnTheWire, FirstInOrder DEF AuthenticateUpstream
  <2>3. phase' \in {"proving", "upstreamTls"} /\ mode.terminating /\ mode' = mode
    BY <1>1, <1>4 DEF AuthenticateUpstream, Upstreaming
  <2>4. ClientLeg'
    BY <1>1, <1>2, <1>4 DEF Order, ClientLeg, LastOnly
  <2>5. ServerLeg'
    BY <1>1, <1>3, <2>2, <2>3 DEF ServerLeg, LastOnly, LastSent
  <2>6. Turns'
    BY <1>1, <1>2, <1>4, <2>3 DEF Turns, Proving, Relays, Before
  <2> QED BY <1>1, <2>4, <2>5, <2>6 DEF Order
<1>5. CASE /\ toClient' = Append(toClient, Packet("Err", Head(toProxy).seq + 1))
           /\ phase' = "closed" /\ toServer' = toServer
  <2>1. Packet("Err", Head(toProxy).seq + 1).seq = client.seq + 1
    BY <1>2 DEF Packet
  <2>2. ClientLeg'
    BY <1>1, <1>2, <1>5, <2>1, TellsInOrder
  <2>3. ServerLeg' /\ Turns'
    BY <1>1, <1>3, <1>5 DEF ServerLeg, InARow, LastOnly, LastSent, Turns, Proving, Relays,
                            Before
  <2> QED BY <1>1, <2>2, <2>3 DEF Order
<1> QED BY <1>4, <1>5 DEF Verify, Close

\* The client's response.
LEMMA ResponseInOrder ==
    ASSUME AuthInv, Order, Claimed, Response
    PROVE  Order'
<1> DEFINE p == Head(toProxy)
<1>1. /\ phase \in {"response", "tlsResponse"} /\ TakeFromClient /\ World /\ toUs' = toUs
      /\ p.kind = "Response"
      /\ UNCHANGED <<mode, client, server, inOrder>>
  BY DEF Response, World
<1>2. /\ p.seq = client.seq /\ toProxy' = <<>> /\ toClient = <<>> /\ client.at # "start"
      /\ client.seq = (IF mode.clientTls THEN 2 ELSE 1) /\ p \in Packets
  BY <1>1, TakenFromClient
<1>3. toServer = <<>> /\ toUs = <<>> /\ server.seq = 0 /\ server.at # "start"
  BY <1>1 DEF Order, Turns, Proving, Relays, ServerLeg, Before
<1>4. CASE /\ ~mode.terminating /\ toServer' = FirstUpstream(p) /\ phase' = Upstreaming("relaying")
           /\ UNCHANGED <<seq, toClient>>
  <2>1. /\ InARow(toServer', 0) /\ LastOnly(toServer', "SslRequest")
        /\ Len(toServer') = IF mode.upstreamTls THEN 2 ELSE 1
    BY <1>2, <1>4, OnTheWire, FirstInOrder
  <2>2. client.seq = server.seq + Len(toServer')
    BY <1>2, <1>3, <1>4, <2>1 DEF Claimed
  <2>3. ClientLeg'
    BY <1>1, <1>2, <1>4 DEF Order, ClientLeg, LastOnly
  <2>4. ServerLeg'
    BY <1>1, <1>3, <1>4, <2>1 DEF ServerLeg, LastOnly, LastSent
  <2>5. Turns'
    <3>1. phase' \in {"relaying", "upstreamTls"} /\ ~mode.terminating' /\ toProxy' = <<>> /\ toUs' = <<>> /\ toClient' = <<>>
          /\ client'.at # "start" /\ client'.seq = server'.seq + Len(toServer')
      BY <1>1, <1>2, <1>3, <1>4, <2>2 DEF Upstreaming
    <3> QED BY <3>1 DEF Turns, Proving, Relays, Before
  <2> QED BY <1>1, <2>3, <2>4, <2>5 DEF Order
<1>5. CASE mode.terminating /\ Verify(p)
  BY <1>1, <1>5, VerifyInOrder DEF Before
<1>6. CASE AskToSwitch(p)
  <2>1. Challenge("Switch", p.seq + 1, mode.plugin, "proxy").seq = client.seq + 1
    BY <1>2 DEF Challenge, Packet
  <2>2. ClientLeg' /\ phase' = "switch" /\ seq' = seq /\ toServer' = toServer
    BY <1>1, <1>2, <1>6, <2>1, TellsInOrder DEF AskToSwitch
  <2>3. ServerLeg' /\ Turns'
    BY <1>1, <1>3, <2>2 DEF ServerLeg, InARow, LastOnly, LastSent, Turns, Proving, Relays,
                            Before
  <2> QED BY <1>1, <2>2, <2>3 DEF Order
<1> QED BY <1>4, <1>5, <1>6 DEF Response

\* The reply to a request to switch.
LEMMA SwitchReplyInOrder ==
    ASSUME AuthInv, Order, SwitchReply
    PROVE  Order'
<1>1. /\ phase = "switch" /\ TakeFromClient /\ World /\ toUs' = toUs
      /\ UNCHANGED <<mode, client, server, inOrder>>
  BY DEF SwitchReply, World
<1>2. CASE Verify(Head(toProxy))
  BY <1>1, <1>2, VerifyInOrder DEF Before, AuthInv, Phases
<1>3. CASE Close("broken off") /\ UNCHANGED <<seq, toClient, toServer>>
  <2>1. toProxy' = <<>> /\ phase' = "closed"
    BY <1>1, <1>3, TakenFromClient DEF Close
  <2>2. ClientLeg'
    <3>1. mode' = mode /\ client' = client /\ toClient' = toClient /\ toProxy' = <<>>
      BY <1>1, <1>3, <2>1
    <3>2. Len(toProxy') = 0 /\ DOMAIN toProxy' = {}
      BY <3>1
    <3> QED BY <3>1, <3>2 DEF Order, ClientLeg, LastOnly
  <2>3. server.at # "start"
    BY <1>1 DEF Order, ServerLeg
  <2>4. ServerLeg' /\ Turns'
    BY <1>1, <1>3, <2>1, <2>3 DEF Order, ServerLeg, InARow, LastOnly, LastSent, Turns,
                                  Proving, Relays, Before
  <2> QED BY <1>1, <2>2, <2>4 DEF Order
<1> QED BY <1>2, <1>3 DEF SwitchReply

\* One round of authenticate_upstream.
LEMMA ProveInOrder ==
    ASSUME AuthInv, Order, Prove
    PROVE  Order'
<1> DEFINE p == Head(toUs)
<1>1. /\ phase = "proving" /\ TakeFromServer
      /\ UNCHANGED <<seq, toProxy, mode, client, server, inOrder>>
  BY DEF Prove, NextRound, World
<1>2. /\ p \in Packets /\ toUs # <<>> /\ toServer = <<>> /\ server.at # "start"
      /\ LastOnly(toUs', "Fast") /\ LastSent(toUs)'
      /\ p.kind # "Fast" =>
            toUs' = <<>> /\ (p.kind \notin {"Ok", "Err"} => p.seq = server.seq)
  BY <1>1, TakenFromServer
<1>3. /\ toClient = <<>> /\ toProxy = <<>> /\ client.seq = seq /\ client.at # "start"
      /\ client.seq \in Nat
  BY <1>1, OnTheWire DEF Order, Turns, Proving, Relays
<1> HIDE DEF p
<1>4. ASSUME phase' # "proving", phase' \in {"command", "closed"}, toServer' = toServer
      PROVE  ServerLeg' /\ Turns'
  <2>1. ServerLeg'
    BY <1>1, <1>2, <1>4 DEF ServerLeg, InARow, LastOnly
  <2>2. Turns'
    BY <1>4 DEF Turns, Proving, Relays, Before
  <2> QED BY <2>1, <2>2
<1>5. CASE toClient' = toClient \o Welcome(seq) /\ CommandPhase /\ toServer' = toServer
  <2>1. toClient' = Welcome(seq)
    <3>1. Welcome(seq) \in Seq(Earned("accepted"))
      BY <1>3, WelcomeShape
    <3> QED BY <1>3, <1>5, <3>1, ConcatEmptySeq
  <2>2. \A kind, n : Packet(kind, n).seq = n /\ Packet(kind, n).kind = kind
    BY DEF Packet
  <2>3. ClientLeg'
    <3>1. CASE mode.plugin = "sha2"
      <4>1. toClient' = <<Packet("Fast", seq + 1), Packet("Ok", seq + 2)>>
        BY <2>1, <3>1 DEF Welcome
      <4>2. /\ Len(toClient') = 2 /\ DOMAIN toClient' = {1, 2}
            /\ toClient'[1].seq = seq + 1 /\ toClient'[2].seq = seq + 2
            /\ toClient'[1].kind = "Fast"
        BY <2>2, <4>1
      <4> QED BY <1>1, <1>3, <4>2 DEF Order, ClientLeg, LastOnly
    <3>2. CASE mode.plugin # "sha2"
      <4>1. toClient' = <<Packet("Ok", seq + 1)>>
        BY <2>1, <3>2 DEF Welcome
      <4>2. Len(toClient') = 1 /\ DOMAIN toClient' = {1} /\ toClient'[1].seq = seq + 1
        BY <2>2, <4>1
      <4> QED BY <1>1, <1>3, <4>2 DEF Order, ClientLeg, LastOnly
    <3> QED BY <3>1, <3>2
  <2>4. phase' = "command"
    BY <1>5 DEF CommandPhase
  <2> QED BY <1>1, <1>4, <1>5, <2>3, <2>4 DEF Order
<1>6. CASE /\ \E reply \in UpstreamReply(p) : toServer' = toServer \o reply
           /\ UNCHANGED <<phase, toClient>>
  <2>1. PICK reply \in UpstreamReply(p) : toServer' = toServer \o reply
    BY <1>6
  <2>2. ClientLeg' /\ Turns'
    BY <1>1, <1>3, <1>6 DEF Order, ClientLeg, LastOnly, Turns, Proving, Relays, Before
  <2>3. reply = <<>> \/ /\ p.kind # "Fast" /\ p.kind \notin {"Ok", "Err"}
                        /\ \E q : reply = <<q>> /\ q.seq = p.seq + 1
    <3>1. \A kind, n, plugin, whose : Proof(kind, n, "proxy", plugin, whose).seq = n
      BY DEF Proof, Packet
    <3>2. CASE p.kind = "Switch"
      BY <3>1, <3>2 DEF UpstreamReply
    <3>3. CASE p.kind = "Full"
      <4>1. PICK q \in Password(p.seq + 1) : reply = <<q>>
        BY <3>3 DEF UpstreamReply
      <4>2. q.seq = p.seq + 1
        BY <3>1, <4>1 DEF Password
      <4> QED BY <3>3, <4>1, <4>2
    <3>4. CASE p.kind \notin {"Switch", "Full"}
      BY <3>4 DEF UpstreamReply
    <3> QED BY <3>2, <3>3, <3>4
  <2>4. CASE reply = <<>>
    <3>1. toServer' = <<>>
      BY <1>2, <2>1, <2>4
    <3> QED BY <1>1, <1>2, <2>2, <3>1 DEF Order, ServerLeg, InARow, LastOnly
  <2>5. ASSUME p.kind # "Fast", p.kind \notin {"Ok", "Err"},
               NEW q, reply = <<q>>, q.seq = p.seq + 1
        PROVE  Order'
    <3>1. toServer' = <<q>> /\ toUs' = <<>> /\ q.seq = server.seq + 1
      BY <1>2, <2>1, <2>5
    <3>2. Len(toServer') = 1 /\ DOMAIN toServer' = {1} /\ toServer'[1] = q
      BY <3>1
    <3>3. ServerLeg'
      BY <1>1, <1>2, <3>1, <3>2 DEF ServerLeg, InARow, LastOnly
    <3> QED BY <1>1, <2>2, <3>3 DEF Order
  <2> QED BY <2>3, <2>4, <2>5
<1>7. ASSUME NEW why, Fail(why)
      PROVE  Order'
  <2>1. Packet("Err", seq + 1).seq = client.seq + 1
    BY <1>3 DEF Packet
  <2>2. phase' = "closed" /\ toServer' = toServer
        /\ toClient' = Append(toClient, Packet("Err", seq + 1))
    BY <1>7 DEF Fail, Close
  <2>3. ClientLeg'
    BY <1>1, <1>3, <2>1, <2>2, TellsInOrder
  <2> QED BY <1>1, <1>4, <2>2, <2>3 DEF Order
<1> QED BY <1>5, <1>6, <1>7 DEF Prove, p

\* One round of the relayed exchange, from the server.
LEMMA RelayInOrder ==
    ASSUME AuthInv, Order, Relay
    PROVE  Order'
<1> DEFINE p == Head(toUs)
<1>1. /\ phase = "relaying" /\ TakeFromServer
      /\ UNCHANGED <<seq, toProxy, toServer, mode, client, server, inOrder>>
  BY DEF Relay, NextRound, World
<1>2. /\ p = toUs[1] /\ 1 \in DOMAIN toUs
      /\ p \in Packets /\ toUs # <<>> /\ toServer = <<>> /\ server.at # "start"
      /\ LastOnly(toUs', "Fast") /\ LastSent(toUs)'
      /\ p.kind # "Fast" =>
            toUs' = <<>> /\ (p.kind \notin {"Ok", "Err"} => p.seq = server.seq)
      /\ \A i \in DOMAIN toUs' : i \in Nat /\ i + 1 \in DOMAIN toUs /\ toUs'[i] = toUs[i + 1]
  BY <1>1, TakenFromServer
<1>3. /\ toProxy = <<>> /\ client.at # "start" /\ client.seq \in Nat
      /\ \A i \in DOMAIN toClient : toClient[i].kind = "Fast"
      /\ \A i \in DOMAIN toUs : toUs[i].seq = client.seq + Len(toClient) + i
      /\ Len(toClient) \in Nat
  BY <1>1, OnTheWire, LenProperties DEF Order, Turns, Proving, Relays
<1> HIDE DEF p
<1>4. ServerLeg'
  <2>1. server'.at # "start"
    BY <1>1, <1>2
  <2> QED BY <1>1, <1>2, <2>1 DEF ServerLeg, InARow, LastOnly
<1>5. ASSUME toClient' = Append(toClient, p)
      PROVE  /\ ClientLeg' /\ Len(toClient') = Len(toClient) + 1
             /\ \A i \in DOMAIN toClient' :
                   \/ toClient'[i].kind = "Fast" /\ i < Len(toClient')
                   \/ i = Len(toClient') /\ toClient'[i] = p
  <2>1. /\ Len(toClient') = Len(toClient) + 1
        /\ DOMAIN toClient = 1..Len(toClient) /\ DOMAIN toClient' = 1..(Len(toClient) + 1)
        /\ \A i \in 1..Len(toClient) : toClient'[i] = toClient[i]
        /\ toClient'[Len(toClient) + 1] = p
    BY <1>2, <1>5, OnTheWire, AppendProperties, LenProperties
  <2>2. p.seq = client.seq + Len(toClient) + 1
    BY <1>2, <1>3
  <2>3. \A i \in DOMAIN toClient' :
           \/ /\ i \in DOMAIN toClient /\ toClient'[i] = toClient[i]
              /\ toClient'[i].kind = "Fast" /\ i < Len(toClient')
           \/ i = Len(toClient') /\ toClient'[i] = p /\ p.seq = client.seq + i
    <3> SUFFICES ASSUME NEW i \in DOMAIN toClient'
                 PROVE  \/ /\ i \in DOMAIN toClient /\ toClient'[i] = toClient[i]
                           /\ toClient'[i].kind = "Fast" /\ i < Len(toClient')
                        \/ i = Len(toClient') /\ toClient'[i] = p /\ p.seq = client.seq + i
      OBVIOUS
    <3>1. i \in 1..Len(toClient) \/ i = Len(toClient) + 1
      BY <1>3, <2>1
    <3>2. CASE i \in 1..Len(toClient)
      BY <1>3, <2>1, <3>2
    <3>3. CASE i = Len(toClient) + 1
      BY <1>3, <2>1, <2>2, <3>3
    <3> QED BY <3>1, <3>2, <3>3
  <2>4. ClientLeg'
    <3>1. \A i \in DOMAIN toClient' :
             toClient'[i].kind # "Greeting" => toClient'[i].seq = client.seq + i
      BY <2>3 DEF Order, ClientLeg
    <3>2. LastOnly(toClient', "Fast")
      BY <1>3, <2>1, <2>3 DEF LastOnly
    <3>3. toProxy' = <<>> /\ Len(toProxy') = 0 /\ DOMAIN toProxy' = {}
      BY <1>1, <1>3
    <3> QED BY <1>1, <3>1, <3>2, <3>3 DEF Order, ClientLeg
  <2> QED BY <2>1, <2>3, <2>4
<1>6. CASE phase' \in {"command", "closed"} /\ toClient' = Append(toClient, p)
  <2>1. Turns'
    BY <1>6 DEF Turns, Proving, Relays, Before
  <2> QED BY <1>1, <1>4, <1>5, <1>6, <2>1 DEF Order
<1>7. CASE phase' = "closed" /\ toClient' = toClient
  <2>1. Turns'
    BY <1>7 DEF Turns, Proving, Relays, Before
  <2>2. ClientLeg'
    BY <1>1, <1>7 DEF Order, ClientLeg, LastOnly
  <2> QED BY <1>1, <1>4, <2>1, <2>2 DEF Order
<1>8. CASE p.kind # "Fast" /\ phase' = "replying" /\ toClient' = Append(toClient, p)
  <2>1. LastSent(toClient)'
    <3> SUFFICES ASSUME NEW i \in DOMAIN toClient', i = Len(toClient'),
                        toClient'[i].kind \notin {"Ok", "Err"}
                 PROVE  toClient'[i].seq = server'.seq
      BY DEF LastSent
    <3>1. toClient'[i] = p
      BY <1>3, <1>5, <1>8
    <3> QED BY <1>1, <1>2, <1>8, <3>1
  <2>2. Turns'
    BY <1>1, <1>2, <1>3, <1>8, <2>1 DEF Turns, Proving, Relays, Before
  <2> QED BY <1>1, <1>4, <1>5, <1>8, <2>2 DEF Order
<1>9. CASE p.kind = "Fast" /\ phase' = "relaying" /\ toClient' = Append(toClient, p)
  <2>1. \A i \in DOMAIN toClient' : toClient'[i].kind = "Fast"
    BY <1>5, <1>9
  <2>2. ASSUME NEW i \in DOMAIN toUs'
        PROVE  toUs'[i].seq = client'.seq + Len(toClient') + i
    <3>1. toUs'[i].seq = client.seq + Len(toClient) + (i + 1) /\ i \in Nat
      BY <1>2, <1>3
    <3>2. \A a, b, c \in Nat : a + b + (c + 1) = a + (b + 1) + c
      OBVIOUS
    <3>3. toUs'[i].seq = client.seq + (Len(toClient) + 1) + i
      BY <1>3, <3>1, <3>2
    <3>4. client' = client /\ Len(toClient') = Len(toClient) + 1
      BY <1>1, <1>5, <1>9
    <3> QED BY <3>3, <3>4
  <2>3. Turns'
    BY <1>1, <1>2, <1>3, <1>9, <2>1, <2>2 DEF Turns, Proving, Relays, Before
  <2> QED BY <1>1, <1>4, <1>5, <1>9, <2>3 DEF Order
<1> QED BY <1>6, <1>7, <1>8, <1>9 DEF Relay, CommandPhase, Close, ExpectsReply, p

\* One round of the relayed exchange, from the client.
LEMMA RelayReplyInOrder ==
    ASSUME AuthInv, Order, RelayReply
    PROVE  Order'
<1>1. /\ phase = "replying" /\ TakeFromClient /\ phase' = "relaying"
      /\ toServer' = Append(toServer, Head(toProxy))
      /\ UNCHANGED <<seq, toClient, toUs, mode, client, server, inOrder>>
  BY DEF RelayReply, World
<1>2. /\ Head(toProxy).seq = client.seq /\ toProxy' = <<>> /\ toClient = <<>>
      /\ toProxy # <<>> /\ client.at # "start"
  BY <1>1, TakenFromClient
<1>3. toServer = <<>> /\ toUs = <<>> /\ client.seq = server.seq + 1 /\ server.at # "start"
  BY <1>1, <1>2 DEF Order, Turns, Proving, Relays, ServerLeg
<1>4. /\ toServer' = <<Head(toProxy)>> /\ Len(toServer') = 1 /\ DOMAIN toServer' = {1}
      /\ toServer'[1].seq = server.seq + 1
  BY <1>1, <1>2, <1>3
<1>5. ClientLeg'
  BY <1>1, <1>2 DEF Order, ClientLeg, LastOnly
<1>6. ServerLeg'
  BY <1>1, <1>3, <1>4 DEF ServerLeg, InARow, LastOnly, LastSent
<1>7. Turns'
  BY <1>1, <1>2, <1>3, <1>4 DEF Turns, Proving, Relays, Before
<1> QED BY <1>1, <1>5, <1>6, <1>7 DEF Order

\* The end of the session, which a client whose credential the server is being shown is
\* told of.
LEMMA EndInOrder ==
    ASSUME AuthInv, Order, World, phase' = "closed",
           UNCHANGED <<seq, toProxy, toServer, toUs>>, phase # "closed",
           \/ toClient' = toClient
           \/ phase = "proving" /\ toClient' = Append(toClient, Packet("Err", seq + 1))
    PROVE  Order'
<1>1. UNCHANGED <<mode, client, server, inOrder>>
  BY DEF World
<1>2. ServerLeg'
  BY <1>1 DEF Order, ServerLeg, InARow, LastOnly, LastSent
<1>3. Turns'
  BY DEF Turns, Proving, Relays, Before
<1>4. ClientLeg'
  <2>1. CASE toClient' = toClient
    BY <1>1, <2>1 DEF Order, ClientLeg, LastOnly
  <2>2. CASE phase = "proving" /\ toClient' = Append(toClient, Packet("Err", seq + 1))
    <3>1. toClient = <<>> /\ toProxy' = <<>> /\ client.seq = seq
      BY <2>2 DEF Order, Turns, Proving, Relays
    <3>2. Packet("Err", seq + 1).seq = client.seq + 1
      BY <3>1 DEF Packet
    <3> QED BY <1>1, <2>2, <3>1, <3>2, TellsInOrder
  <2> QED BY <2>1, <2>2
<1> QED BY <1>1, <1>2, <1>3, <1>4 DEF Order

\* Encrypting the leg to the server leaves the numbers alone.
LEMMA UpstreamTlsInOrder ==
    ASSUME AuthInv, Order, UpstreamTls
    PROVE  Order'
<1>1. /\ phase = "upstreamTls" /\ server' = [server EXCEPT !.at = "await"]
      /\ phase' = IF mode.terminating THEN "proving" ELSE "relaying"
      /\ UNCHANGED <<mode, seq, client, toProxy, toClient, toServer, toUs, inOrder>>
  BY DEF UpstreamTls, progress
<1>2. server'.at = "await" /\ server'.seq = server.seq
  BY <1>1 DEF AuthInv, Shapes
<1>3. ClientLeg'
  BY <1>1 DEF Order, ClientLeg, LastOnly
<1>4. ServerLeg'
  BY <1>1, <1>2 DEF Order, ServerLeg, InARow, LastOnly, LastSent
<1>5. Turns'
  BY <1>1, <1>2 DEF Order, Turns, Proving, Relays, Before, LastSent
<1> QED BY <1>1, <1>3, <1>4, <1>5 DEF Order

\* The command phase counts its own packets.
LEMMA CommandInOrder ==
    ASSUME AuthInv, Order, CommandStep
    PROVE  Order'
<1>1. UNCHANGED <<mode, seq, client, server, toProxy, toClient, toServer, toUs, inOrder>>
  BY DEF CommandStep
<1>2. \/ phase = "command" /\ phase' \in {"command", "closed"}
      \/ phase' = phase /\ uCodec' = uCodec
  BY DEF CommandStep, Relaying!RelayNext, Relaying!Issue, Relaying!Serve,
         Relaying!InReturn, Relaying!LoopStep, Relaying!RefuseBinary, Relaying!Forward,
         Relaying!ForwardCommand, Relaying!ForwardReply, Relaying!Stop, Relaying!Close
<1>3. ClientLeg'
  BY <1>1 DEF Order, ClientLeg, LastOnly
<1>4. ServerLeg'
  BY <1>1, <1>2 DEF Order, ServerLeg, InARow, LastOnly, LastSent
<1>5. Turns'
  BY <1>1, <1>2 DEF Order, Turns, Proving, Relays, Before, LastSent
<1> QED BY <1>1, <1>3, <1>4, <1>5 DEF Order

\* At the start nothing has been sent.
LEMMA InitInOrder == Init => OrderInv
<1> SUFFICES ASSUME Init PROVE Order
  BY DEF OrderInv
<1> USE DEF Init, AuthInit
<1>1. ClientLeg
  BY DEF ClientLeg, LastOnly
<1>2. ServerLeg
  BY DEF ServerLeg, InARow, LastOnly, LastSent
<1>3. Turns
  BY DEF Turns, Proving, Relays, Before
<1> QED BY <1>1, <1>2, <1>3 DEF Order

\* Every step keeps the numbers in order.
LEMMA NextInOrder == AuthInv /\ OrderInv /\ [Next]_vars => OrderInv'
<1> SUFFICES ASSUME AuthInv, OrderInv, [Next]_vars, Claimed' PROVE Order'
  BY DEF OrderInv
<1>1. mode' = mode
  BY DEF Next, vars, authVars, AuthStep, AuthNext, CommandStep, Ended, Greet, Serve,
         ClientStep, MeetsProxy, RespondsOverTls, Switches, SendsPassword, UsesKey, Waits,
         Learns, Unsent, ProxyStep, Greeting, UpgradeClient, Response, SwitchReply, Prove,
         Relay, RelayReply, UpstreamTls, TooManyRounds, AuthStepEnds, ServerGone, World
<1>2. Claimed
  BY <1>1 DEF Claimed
<1>3. Order
  BY <1>2 DEF OrderInv
<1>4. CASE Greet           BY <1>3, <1>4, GreetInOrder
<1>5. CASE Serve           BY <1>3, <1>5, ServeInOrder
<1>6. CASE ClientStep      BY <1>3, <1>6, ClientInOrder
<1>7. CASE Greeting        BY <1>3, <1>7, GreetingInOrder
<1>8. CASE UpgradeClient   BY <1>3, <1>8, UpgradeInOrder
<1>9. CASE Response        BY <1>2, <1>3, <1>9, ResponseInOrder
<1>10. CASE SwitchReply    BY <1>3, <1>10, SwitchReplyInOrder
<1>11. CASE Prove          BY <1>3, <1>11, ProveInOrder
<1>12. CASE Relay          BY <1>3, <1>12, RelayInOrder
<1>13. CASE RelayReply     BY <1>3, <1>13, RelayReplyInOrder
<1>14. CASE TooManyRounds \/ AuthStepEnds \/ ServerGone
  <2>1. /\ World /\ phase' = "closed" /\ phase # "closed"
        /\ UNCHANGED <<seq, toProxy, toServer, toUs>>
        /\ \/ toClient' = toClient
           \/ phase = "proving" /\ toClient' = Append(toClient, Packet("Err", seq + 1))
    BY <1>14 DEF TooManyRounds, AuthStepEnds, ServerGone, TellIfProving, Close,
                 Negotiating, Unhurried
  <2> QED BY <1>3, <2>1, EndInOrder
<1>15. CASE CommandStep    BY <1>3, <1>15, CommandInOrder
<1>16. CASE UNCHANGED vars
  BY <1>3, <1>16 DEF vars, authVars, progress, codecs, Order, ClientLeg, ServerLeg, Turns,
                     Proving, Relays,
                     InARow, LastOnly, LastSent
<1>17. CASE UpstreamTls    BY <1>3, <1>17, UpstreamTlsInOrder
<1> QED BY <1>4, <1>5, <1>6, <1>7, <1>8, <1>9, <1>10, <1>11, <1>12, <1>13, <1>14, <1>15, <1>16,
           <1>17
        DEF Next, AuthStep, AuthNext, ProxyStep, Ended

\* "MySQL answers a mismatch with ER_NET_PACKETS_OUT_OF_ORDER and drops the connection"
\* (handle_mysql_protocol): for any plugins, rounds and switches, no packet of either leg
\* is numbered out of order, whichever of the legs is encrypted, while the proxy
\* authenticates for itself or has both legs alike.
THEOREM NumberedInSequence == Spec => []InSequence
<1>1. AuthInv /\ OrderInv => InSequence
  BY DEF OrderInv, Claimed, Order, InSequence
<1> QED BY <1>1, InitKeeps, NextKeeps, InitInOrder, NextInOrder, PTL DEF Spec

-----------------------------------------------------------------------------
(* Types *)

\* What goes to the server and comes back in the command phase.
Issued == {"Query", "FieldList", "Prepare", "Ping", "Stats", "ChangeUser"}
Sent ==
    {c \in [kind : Issued \cup {"Reply", "Data", "Done"},
            of : Stmts \cup {NoStmt}] :
        c.kind \in {"Query", "FieldList"} => c.of \in Stmts}
Forwarded == {c \in Sent : c.kind # "Prepare"}
Returned ==
    {p \in [kind : {"Ok", "Err", "Infile", "Text", "Switch", "Full", "Fast", "Eof", "End",
                    "Count", "Column", "HugeRow", "Row"},
            of : Stmts \cup {NoStmt}, n : 0..MaxColumns] :
        p.kind \in {"Count", "Column"} => p.of \in Stmts /\ p.n # 0}

SessionTypes ==
    /\ phase \in Unproven \cup {"command", "closed"}
    /\ cause \in {"none", "refused", "broken off", "rounds", "gave up", "protocol", "stopped"}
    /\ cCodec \in DecoderStates
    /\ rounds \in 0..MaxRounds
    /\ deprecateEof \in BOOLEAN
    /\ asked \in {"nothing", "Upload", "Prove", "Spoilt", "lost"} \cup Issued
    /\ columns \in Seq(Stmts)
    /\ uCodec \in DecoderStates
    /\ commands \in Seq(Sent) /\ requests \in Seq(Forwarded) /\ replies \in Seq(Returned)
    /\ Len(commands) <= 1

\* MySqlRelay reads with the same codec.
LEMMA SameCodec ==
    /\ Relaying!DecoderStates = DecoderStates
    /\ \A state : Relaying!At(state) = At(state)
    /\ \A state, p, eof : Relaying!Decode(state, p, eof) = Decode(state, p, eof)
    /\ \A state : Relaying!ReplyReadAs(state) = ReplyReadAs(state)
<1> USE DEF Relaying!At, At, Relaying!ReadingColumns, ReadingColumns
<1>1. Relaying!DecoderStates = DecoderStates
  BY DEF Relaying!DecoderStates, DecoderStates
<1>2. \A p : Relaying!CountOf(p) = CountOf(p)
  BY DEF Relaying!CountOf, CountOf
<1>3. \A p : Relaying!InCommand(p) = InCommand(p)
  BY <1>2 DEF Relaying!InCommand, InCommand, Relaying!Read, Read, Relaying!BeginsFE, BeginsFE
<1>4. \A state, p, eof : Relaying!InColumns(state, p, eof) = InColumns(state, p, eof)
  BY DEF Relaying!InColumns, InColumns, Relaying!Read, Read, Relaying!Malformed, Malformed
<1>5. \A p : Relaying!InRows(p) = InRows(p)
  BY DEF Relaying!InRows, InRows, Relaying!Read, Read, Relaying!BeginsFE, BeginsFE
<1>6. \A p : Relaying!InAuth(p) = InAuth(p)
  BY DEF Relaying!InAuth, InAuth, Relaying!Read, Read
<1>7. \A p : Relaying!AfterResponse(p) = AfterResponse(p)
  BY DEF Relaying!AfterResponse, AfterResponse, Relaying!Read, Read
<1>8. \A state, p, eof : Relaying!Decode(state, p, eof) = Decode(state, p, eof)
  BY <1>3, <1>4, <1>5, <1>6, <1>7 DEF Relaying!Decode, Decode, Relaying!Read, Read
<1>9. \A state : Relaying!ReplyReadAs(state) = ReplyReadAs(state)
  BY DEF Relaying!ReplyReadAs, ReplyReadAs
<1> QED BY <1>1, <1>8, <1>9

\* The decoder goes from one of its states to another, whatever it is given.
LEMMA DecodeStays ==
    ASSUME NEW state \in DecoderStates, NEW p, NEW eof \in BOOLEAN,
           CountOf(p) \in 1..MaxColumns
    PROVE  Decode(state, p, eof).state \in DecoderStates
<1>1. At("Command") \in DecoderStates /\ At("ReadingRows") \in DecoderStates
      /\ At("WaitingHandshakeResponse") \in DecoderStates
      /\ At("WaitingAuthResponse") \in DecoderStates
  BY DEF DecoderStates
<1>2. \A n \in 1..MaxColumns : ReadingColumns(n) \in DecoderStates
  BY DEF DecoderStates
<1>3. CASE state.at = "WaitingHandshake"
  BY <1>1, <1>3 DEF Decode, Read
<1>4. CASE state.at = "WaitingHandshakeResponse"
  BY <1>1, <1>4 DEF Decode, AfterResponse, Read
<1>5. CASE state.at = "WaitingAuthResponse"
  BY <1>1, <1>5 DEF Decode, InAuth, Read
<1>6. CASE state.at = "Command"
  BY <1>1, <1>2, <1>6 DEF Decode, InCommand, Read, BeginsFE
<1>7. CASE state.at = "ReadingColumns"
  <2>1. PICK n \in 1..MaxColumns : state = ReadingColumns(n)
    BY <1>7 DEF DecoderStates, At
  <2>2. n > 1 => n - 1 \in 1..MaxColumns
    BY MySqlCodecAssumption
  <2>3. state.left = n
    BY <2>1 DEF ReadingColumns
  <2>4. Decode(state, p, eof) = InColumns(state, p, eof)
    BY <1>7 DEF Decode
  <2>5. InColumns(state, p, eof).state
           \in {At("ReadingRows"), state} \cup
               (IF n > 1 THEN {ReadingColumns(n - 1)} ELSE {})
    BY <2>3 DEF InColumns, Read, Malformed
  <2> QED BY <1>1, <1>2, <2>2, <2>4, <2>5
<1>8. CASE state.at = "ReadingRows"
  BY <1>1, <1>8 DEF Decode, InRows, Read, BeginsFE
<1>9. state.at \in {"WaitingHandshake", "WaitingHandshakeResponse", "WaitingAuthResponse",
                   "Command", "ReadingColumns", "ReadingRows"}
  BY DEF DecoderStates, At, ReadingColumns
<1> QED BY <1>3, <1>4, <1>5, <1>6, <1>7, <1>8, <1>9

\* The packets of the command phase, as their makers make them.
LEMMA ReturnedShape ==
    /\ \A kind \in {"Ok", "Err", "Infile", "Text", "Switch", "Full", "Fast", "Eof", "End"} :
          /\ Relaying!Short(kind) \in Returned
          /\ Relaying!Short(kind).kind = kind
    /\ \A kind \in {"Count", "Column", "HugeRow", "Row"}, s \in Stmts, n \in 1..MaxColumns :
          /\ Relaying!Answer(kind, s, n) \in Returned
          /\ Relaying!Answer(kind, s, n).kind = kind
          /\ Relaying!Answer(kind, s, n).of = s
          /\ Relaying!Answer(kind, s, n).n = n
  BY MySqlCodecAssumption DEF Returned, Relaying!Short, Relaying!Answer

\* A packet of the command phase announces as many columns as there may be.
LEMMA ReturnedCount ==
    ASSUME NEW p \in Returned
    PROVE  CountOf(p) \in 1..MaxColumns
  BY MySqlCodecAssumption DEF CountOf, Returned

\* The decoder takes for a column definition what is one.
LEMMA ColumnsAreColumns ==
    ASSUME NEW state \in DecoderStates, NEW p, NEW eof \in BOOLEAN,
           Decode(state, p, eof).kind = "Column"
    PROVE  p.kind = "Column"
<1>1. state.at \in {"WaitingHandshake", "WaitingHandshakeResponse", "WaitingAuthResponse",
                   "Command", "ReadingColumns", "ReadingRows"}
  BY DEF DecoderStates, At, ReadingColumns
<1>2. state.at = "ReadingColumns"
  <2>1. CASE state.at = "WaitingHandshake"
    BY <2>1 DEF Decode, Read
  <2>2. CASE state.at = "WaitingHandshakeResponse"
    BY <2>2 DEF Decode, AfterResponse, Read
  <2>3. CASE state.at = "WaitingAuthResponse"
    BY <2>3 DEF Decode, InAuth, Read
  <2>4. CASE state.at = "Command"
    BY <2>4 DEF Decode, InCommand, Read, BeginsFE
  <2>5. CASE state.at = "ReadingRows"
    BY <2>5 DEF Decode, InRows, Read, BeginsFE
  <2> QED BY <1>1, <2>1, <2>2, <2>3, <2>4, <2>5
<1> QED BY <1>2 DEF Decode, InColumns, Read, Malformed

\* A result set is the count, the definitions, an EOF unless CLIENT_DEPRECATE_EOF, the
\* rows and the end.  Due is the packet that has j behind it.
Eofs     == IF deprecateEof THEN 0 ELSE 1
Whole(n) == n + Eofs + 4
Due(s, n, end, j) ==
    CASE j = 0                  -> Relaying!Short(end)
      [] j = 1                  -> Relaying!Answer("Row", s, n)
      [] j = 2                  -> Relaying!Answer("HugeRow", s, n)
      [] j = 3 /\ ~deprecateEof -> Relaying!Short("Eof")
      [] j = n + Eofs + 3       -> Relaying!Answer("Count", s, n)
      [] OTHER                  -> Relaying!Answer("Column", s, n)

LEMMA ResultSetShape ==
    ASSUME NEW s \in Stmts, NEW n \in 1..MaxColumns, NEW end \in {"End", "Eof", "Err"},
           deprecateEof \in BOOLEAN
    PROVE  LET set == Relaying!ResultSet(s, n, end)
           IN /\ set \in Seq(Returned) /\ Len(set) = Whole(n)
              /\ \A i \in 1..Whole(n) : set[i] = Due(s, n, end, Whole(n) - i)
<1> DEFINE count == Relaying!Answer("Count", s, n)
           col   == Relaying!Answer("Column", s, n)
           huge  == Relaying!Answer("HugeRow", s, n)
           row   == Relaying!Answer("Row", s, n)
           eof   == Relaying!Short("Eof")
           fin   == Relaying!Short(end)
           cols  == Relaying!Definitions(s, n)
           eofs  == IF deprecateEof THEN <<>> ELSE <<eof>>
           a1    == <<count>> \o cols
           a2    == a1 \o eofs
           a3    == a2 \o <<huge, row>>
           a4    == a3 \o <<fin>>
<1>1. /\ count \in Returned /\ col \in Returned /\ huge \in Returned /\ row \in Returned
      /\ eof \in Returned /\ fin \in Returned
  BY ReturnedShape
<1>2. n \in Nat /\ n >= 1 /\ Eofs \in {0, 1}
  BY MySqlCodecAssumption DEF Eofs
<1>3. cols \in Seq(Returned) /\ Len(cols) = n /\ \A i \in 1..n : cols[i] = col
  <2>1. cols = [i \in 1..n |-> col]
    BY DEF Relaying!Definitions
  <2> QED BY <1>1, <1>2, <2>1
<1>4. eofs \in Seq(Returned) /\ Len(eofs) = Eofs /\ (Eofs = 1 => eofs[1] = eof)
      /\ (Eofs = 1 <=> ~deprecateEof)
  BY <1>1 DEF Eofs
<1>5. /\ <<count>> \in Seq(Returned) /\ Len(<<count>>) = 1 /\ <<count>>[1] = count
      /\ <<huge, row>> \in Seq(Returned) /\ Len(<<huge, row>>) = 2
      /\ <<huge, row>>[1] = huge /\ <<huge, row>>[2] = row
      /\ <<fin>> \in Seq(Returned) /\ Len(<<fin>>) = 1 /\ <<fin>>[1] = fin
  BY <1>1
<1>6. Relaying!ResultSet(s, n, end) = a4
  BY DEF Relaying!ResultSet
<1> HIDE DEF count, col, huge, row, eof, fin, cols, eofs
<1>7. /\ a1 \in Seq(Returned) /\ Len(a1) = 1 + n
      /\ \A i \in 1..(1 + n) : a1[i] = IF i <= 1 THEN <<count>>[i] ELSE cols[i - 1]
  BY <1>3, <1>5, ConcatProperties
<1> HIDE DEF a1
<1>8. /\ a2 \in Seq(Returned) /\ Len(a2) = 1 + n + Eofs
      /\ \A i \in 1..(1 + n + Eofs) : a2[i] = IF i <= 1 + n THEN a1[i] ELSE eofs[i - (1 + n)]
  BY <1>2, <1>4, <1>7, ConcatProperties
<1> HIDE DEF a2
<1>9. /\ a3 \in Seq(Returned) /\ Len(a3) = 1 + n + Eofs + 2
      /\ \A i \in 1..(1 + n + Eofs + 2) :
            a3[i] = IF i <= 1 + n + Eofs THEN a2[i] ELSE <<huge, row>>[i - (1 + n + Eofs)]
  BY <1>5, <1>8, ConcatProperties
<1> HIDE DEF a3
<1>10. /\ a4 \in Seq(Returned) /\ Len(a4) = 1 + n + Eofs + 2 + 1
       /\ \A i \in 1..(1 + n + Eofs + 2 + 1) :
             a4[i] = IF i <= 1 + n + Eofs + 2 THEN a3[i]
                                              ELSE <<fin>>[i - (1 + n + Eofs + 2)]
  BY <1>5, <1>9, ConcatProperties
<1> HIDE DEF a4
<1>11. Whole(n) = 1 + n + Eofs + 2 + 1
  BY <1>2 DEF Whole
<1>12. ASSUME NEW i \in 1..Whole(n)
       PROVE  a4[i] = Due(s, n, end, Whole(n) - i)
  <2> USE DEF count, col, huge, row, eof, fin
  <2>0. i \in Int /\ Whole(n) = n + Eofs + 4
    BY <1>2 DEF Whole
  <2>1. CASE i = n + Eofs + 4
    <3>1. a4[i] = fin /\ Whole(n) - i = 0
      BY <1>2, <1>5, <1>10, <1>11, <2>0, <2>1
    <3>2. Due(s, n, end, 0) = fin
      BY <1>2 DEF Due
    <3> QED BY <3>1, <3>2
  <2>2. CASE i = n + Eofs + 3
    <3>1. i - (1 + n + Eofs) = 2 /\ Whole(n) - i = 1 /\ ~(i <= 1 + n + Eofs)
          /\ i <= 1 + n + Eofs + 2 /\ i \in 1..(1 + n + Eofs + 2)
          /\ i \in 1..(1 + n + Eofs + 2 + 1)
      BY <1>2, <2>0, <2>2
    <3>2. a4[i] = a3[i] /\ a3[i] = <<huge, row>>[2]
      BY <1>9, <1>10, <3>1
    <3>3. Due(s, n, end, 1) = row
      BY <1>2 DEF Due
    <3> QED BY <1>5, <3>1, <3>2, <3>3
  <2>3. CASE i = n + Eofs + 2
    <3>1. a4[i] = a3[i] /\ a3[i] = <<huge, row>>[1] /\ Whole(n) - i = 2
      BY <1>2, <1>9, <1>10, <1>11, <2>0, <2>3
    <3>2. Due(s, n, end, 2) = huge
      BY <1>2 DEF Due
    <3> QED BY <1>5, <3>1, <3>2
  <2>4. CASE i = n + 2 /\ Eofs = 1
    <3>1. a4[i] = a3[i] /\ a3[i] = a2[i] /\ a2[i] = eofs[1] /\ Whole(n) - i = 3
      BY <1>2, <1>8, <1>9, <1>10, <1>11, <2>0, <2>4
    <3> QED BY <1>4, <2>4, <3>1 DEF Due
  <2>5. CASE i = 1
    <3>1. a4[i] = a3[i] /\ a3[i] = a2[i] /\ a2[i] = a1[i] /\ a1[i] = <<count>>[1]
          /\ Whole(n) - i = n + Eofs + 3
      BY <1>2, <1>7, <1>8, <1>9, <1>10, <1>11, <2>0, <2>5
    <3>2. n + Eofs + 3 \notin {0, 1, 2} /\ ~(n + Eofs + 3 = 3 /\ ~deprecateEof)
      BY <1>2
    <3> QED BY <1>5, <3>1, <3>2 DEF Due
  <2>6. CASE i \in 2..(n + 1)
    <3>1. a4[i] = a3[i] /\ a3[i] = a2[i] /\ a2[i] = a1[i] /\ a1[i] = cols[i - 1]
          /\ i - 1 \in 1..n
      BY <1>2, <1>7, <1>8, <1>9, <1>10, <1>11, <2>0, <2>6
    <3>2. /\ Whole(n) - i \notin {0, 1, 2} /\ ~(Whole(n) - i = 3 /\ Eofs = 1)
          /\ Whole(n) - i # n + Eofs + 3
      BY <1>2, <2>0, <2>6
    <3> QED BY <1>3, <1>4, <3>1, <3>2 DEF Due
  <2>7. \/ i = n + Eofs + 4 \/ i = n + Eofs + 3 \/ i = n + Eofs + 2
        \/ (i = n + 2 /\ Eofs = 1)
        \/ i = 1 \/ i \in 2..(n + 1)
    BY <1>2, <2>0
  <2> QED BY <2>1, <2>2, <2>3, <2>4, <2>5, <2>6, <2>7
<1> QED BY <1>6, <1>10, <1>11, <1>12

\* A result set ends in an error, or in the way the capability says.
LEMMA EndsOfRows ==
    ASSUME deprecateEof \in BOOLEAN
    PROVE  /\ Relaying!EndOfRows \subseteq {"End", "Eof", "Err"}
           /\ (CHOOSE e \in Relaying!EndOfRows : e # "Err") \in {"End", "Eof"}
<1>1. Relaying!EndOfRows = {IF deprecateEof THEN "End" ELSE "Eof", "Err"}
  BY DEF Relaying!EndOfRows
<1>2. \E e \in Relaying!EndOfRows : e # "Err"
  BY <1>1
<1> QED BY <1>1, <1>2

\* Every answer is made of the packets a server sends.
LEMMA AnswersTyped ==
    ASSUME NEW request \in Forwarded, NEW answer \in Relaying!Answers(request),
           deprecateEof \in BOOLEAN
    PROVE  answer \in Seq(Returned)
<1>1. \A kind \in {"Ok", "Err", "Infile", "Text", "Switch", "Full", "Fast", "Eof", "End"} :
         <<Relaying!Short(kind)>> \in Seq(Returned)
  BY ReturnedShape
<1>2. \A s \in Stmts : Relaying!ResultSets(s) \subseteq Seq(Returned)
  <2> SUFFICES ASSUME NEW s \in Stmts, NEW n \in 1..MaxColumns, NEW end \in Relaying!EndOfRows
               PROVE  Relaying!ResultSet(s, n, end) \in Seq(Returned)
    BY DEF Relaying!ResultSets
  <2> QED BY EndsOfRows, ResultSetShape
<1>3. CASE request.kind = "Query"
  <2>1. request.of \in Stmts
    BY <1>3 DEF Forwarded, Sent
  <2>2. \/ answer \in {<<Relaying!Short("Ok")>>, <<Relaying!Short("Err")>>,
                       <<Relaying!Short("Infile")>>}
        \/ answer \in Relaying!ResultSets(request.of)
        \/ \E t \in Stmts : \E second \in Relaying!ResultSets(t) :
              answer = Relaying!ResultSet(request.of, 1,
                          CHOOSE e \in Relaying!EndOfRows : e # "Err") \o second
    <3> DEFINE both(second) ==
          Relaying!ResultSet(request.of, 1,
              CHOOSE e \in Relaying!EndOfRows : e # "Err") \o second
    <3>1. \/ answer \in {<<Relaying!Short("Ok")>>, <<Relaying!Short("Err")>>,
                         <<Relaying!Short("Infile")>>}
          \/ answer \in Relaying!ResultSets(request.of)
          \/ answer \in {both(second) :
                            second \in UNION {Relaying!ResultSets(t) : t \in Stmts}}
      <4> HIDE DEF both
      <4>1. Relaying!Answers(request) =
               {<<Relaying!Short("Ok")>>, <<Relaying!Short("Err")>>,
                <<Relaying!Short("Infile")>>}
                 \cup Relaying!ResultSets(request.of)
                 \cup (IF MultiResults
                       THEN {both(second) :
                                second \in UNION {Relaying!ResultSets(t) : t \in Stmts}}
                       ELSE {})
        BY <1>3 DEF Relaying!Answers, both
      <4> QED BY <4>1
    <3> HIDE DEF both
    <3>2. ASSUME answer \in {both(second) :
                               second \in UNION {Relaying!ResultSets(t) : t \in Stmts}}
          PROVE  \E t \in Stmts : \E second \in Relaying!ResultSets(t) : answer = both(second)
      <4>1. PICK second \in UNION {Relaying!ResultSets(t) : t \in Stmts} : answer = both(second)
        BY <3>2
      <4>2. \E t \in Stmts : second \in Relaying!ResultSets(t)
        BY Zenon
      <4> QED BY <4>1, <4>2
    <3> QED BY <3>1, <3>2 DEF both
  <2>3. CASE \E t \in Stmts : \E second \in Relaying!ResultSets(t) :
              answer = Relaying!ResultSet(request.of, 1,
                          CHOOSE e \in Relaying!EndOfRows : e # "Err") \o second
    <3>1. PICK t \in Stmts : \E second \in Relaying!ResultSets(t) :
              answer = Relaying!ResultSet(request.of, 1,
                          CHOOSE e \in Relaying!EndOfRows : e # "Err") \o second
      BY <2>3
    <3>2. PICK second \in Relaying!ResultSets(t) :
              answer = Relaying!ResultSet(request.of, 1,
                          CHOOSE e \in Relaying!EndOfRows : e # "Err") \o second
      BY <3>1
    <3>3. 1 \in 1..MaxColumns
      BY MySqlCodecAssumption
    <3>4. Relaying!ResultSet(request.of, 1,
              CHOOSE e \in Relaying!EndOfRows : e # "Err") \in Seq(Returned)
      BY <2>1, <3>3, EndsOfRows, ResultSetShape
    <3> QED BY <1>2, <3>2, <3>4, ConcatProperties
  <2> QED BY <1>1, <1>2, <2>1, <2>2, <2>3
<1>4. CASE request.kind \in {"Ping", "Done", "Stats"}
  <2>1. answer \in {<<Relaying!Short("Ok")>>, <<Relaying!Short("Err")>>,
                    <<Relaying!Short("Text")>>}
    BY <1>4 DEF Relaying!Answers
  <2> QED BY <1>1, <2>1
<1>5. CASE request.kind = "Data"
  <2>1. answer = <<>>
    BY <1>5 DEF Relaying!Answers
  <2> QED BY <2>1, EmptySeq
<1>6. CASE request.kind = "FieldList"
  <2>1. request.of \in Stmts
    BY <1>6 DEF Forwarded, Sent
  <2>2. \/ answer = <<Relaying!Short("Err")>>
        \/ \E n \in 1..MaxColumns, end \in Relaying!EndOfRows \ {"Err"} :
              answer = Relaying!Definitions(request.of, n) \o <<Relaying!Short(end)>>
    BY <1>6 DEF Relaying!Answers
  <2>3. ASSUME NEW n \in 1..MaxColumns, NEW end \in Relaying!EndOfRows \ {"Err"},
               answer = Relaying!Definitions(request.of, n) \o <<Relaying!Short(end)>>
        PROVE  answer \in Seq(Returned)
    <3>1. Relaying!Definitions(request.of, n) \in Seq(Returned)
      <4>1. Relaying!Answer("Column", request.of, n) \in Returned /\ n \in Nat
        BY <2>1, ReturnedShape
      <4> QED BY <4>1 DEF Relaying!Definitions
    <3>2. <<Relaying!Short(end)>> \in Seq(Returned)
      BY <1>1, EndsOfRows
    <3> QED BY <2>3, <3>1, <3>2, ConcatProperties
  <2> QED BY <1>1, <2>2, <2>3
<1>7. CASE request.kind = "ChangeUser"
  <2>1. answer \in {<<Relaying!Short("Ok")>>, <<Relaying!Short("Err")>>,
                    <<Relaying!Short("Switch")>>}
    BY <1>7 DEF Relaying!Answers
  <2> QED BY <1>1, <2>1
<1>8. CASE request.kind = "Reply"
  <2>1. answer \in {<<Relaying!Short("Ok")>>, <<Relaying!Short("Err")>>,
                    <<Relaying!Short("Full")>>,
                    <<Relaying!Short("Fast"), Relaying!Short("Ok")>>}
    BY <1>8 DEF Relaying!Answers
  <2>2. <<Relaying!Short("Fast"), Relaying!Short("Ok")>> \in Seq(Returned)
    BY ReturnedShape
  <2> QED BY <1>1, <2>1, <2>2
<1> QED BY <1>3, <1>4, <1>5, <1>6, <1>7, <1>8 DEF Forwarded, Sent, Issued

\* The client issues commands of these kinds.
LEMMA WhatIsAsked == Relaying!Expecting = Issued /\ Relaying!Commands \subseteq Sent
<1>1. \A c \in Relaying!Commands : c \in Sent /\ c.kind \in Issued
  BY DEF Relaying!Commands, Relaying!Command, Sent, Issued
<1>2. PICK s \in Stmts : TRUE
  BY MySqlSessionAssumption
<1>3. /\ \A kind \in {"Query", "FieldList"} : Relaying!Command(kind, s) \in Relaying!Commands
      /\ \A kind \in {"Prepare", "Ping", "Stats", "ChangeUser"} :
            Relaying!Command(kind, NoStmt) \in Relaying!Commands
  BY <1>2 DEF Relaying!Commands
<1>4. \A kind, t : Relaying!Command(kind, t).kind = kind
  BY DEF Relaying!Command
<1>5. Issued \subseteq Relaying!Expecting
  BY <1>3, <1>4 DEF Relaying!Expecting, Issued
<1> QED BY <1>1, <1>5 DEF Relaying!Expecting

\* The authentication phases keep the types of their own state.
LEMMA AuthKeepsTypes ==
    ASSUME AuthInv, AuthInv', SessionTypes, AuthNext, UNCHANGED relay
    PROVE  SessionTypes'
<1> DEFINE Own == /\ phase' \in Unproven \cup {"command", "closed"}
                  /\ cause' \in {"none", "refused", "broken off", "rounds", "gave up",
                                "protocol", "stopped"}
                  /\ cCodec' \in DecoderStates /\ uCodec' \in DecoderStates
                  /\ rounds' \in 0..MaxRounds
<1>1. SUFFICES Own
  BY DEF SessionTypes, relay
<1>2. /\ phase \in Unproven \cup {"command", "closed"}
      /\ cause \in {"none", "refused", "broken off", "rounds", "gave up", "protocol", "stopped"}
      /\ cCodec \in DecoderStates /\ uCodec \in DecoderStates /\ rounds \in 0..MaxRounds
      /\ MaxRounds \in Nat
  BY MySqlAuthAssumption DEF SessionTypes
<1>3. phase' \in Unproven => uCodec' \in DecoderStates
  BY DEF AuthInv, Shapes
<1>4. CASE UNCHANGED <<progress, codecs>>
  BY <1>2, <1>4 DEF progress, codecs
<1>5. CASE Greet \/ Serve \/ ClientStep
  BY <1>4, <1>5 DEF Greet, Serve, ClientStep, MeetsProxy, RespondsOverTls, Switches,
     SendsPassword, UsesKey, Waits, Learns, Unsent
<1>6. CASE Greeting \/ UpgradeClient \/ RelayReply
  BY <1>2, <1>3, <1>6, States DEF Greeting, UpgradeClient, RelayReply, codecs, Unproven,
     Negotiating, Unhurried
<1>7. CASE Response
  BY <1>2, <1>3, <1>7, States DEF Response, Verify, AskToSwitch, AuthenticateUpstream,
                                  Upstreaming, Close,
     Unproven, Negotiating, Unhurried
<1>8. CASE SwitchReply
  BY <1>2, <1>3, <1>8, States DEF SwitchReply, Verify, AuthenticateUpstream, Upstreaming,
                                  Close, Unproven,
     Negotiating, Unhurried
<1>9. ASSUME NextRound
      PROVE  rounds' \in 0..MaxRounds
  <2>1. rounds < MaxRounds /\ (rounds' = 0 \/ rounds' = rounds + 1)
    BY <1>9 DEF NextRound
  <2>2. MaxRounds \in Nat
    BY MySqlAuthAssumption
  <2>3. rounds \in 0..MaxRounds
    BY DEF SessionTypes
  <2> QED BY <2>1, <2>2, <2>3
<1>10. ASSUME TakeFromServer
       PROVE  Decode(uCodec, Head(toUs), FALSE).state \in DecoderStates
  BY <1>2, <1>10, FromServer, DecodeTells
<1>11. CASE Prove
  <2>1. NextRound /\ TakeFromServer /\ phase = "proving"
    BY <1>11 DEF Prove, NextRound
  <2>2. uCodec' \in {At("Command"), Decode(uCodec, Head(toUs), FALSE).state}
        /\ cCodec' \in {At("Command"), cCodec}
    BY <1>11 DEF Prove, CommandPhase, Fail
  <2>3. phase' \in {"command", "proving", "closed"} /\ cause' \in {cause, "refused", "broken off"}
    BY <1>11, <2>1 DEF Prove, CommandPhase, Fail, Close
  <2> QED BY <1>2, <1>9, <1>10, <2>1, <2>2, <2>3, States DEF Unproven, Negotiating, Unhurried
<1>12. CASE Relay
  <2>1. NextRound /\ TakeFromServer
    BY <1>12 DEF Relay, NextRound
  <2>2. uCodec' \in {At("Command"), uCodec, Decode(uCodec, Head(toUs), FALSE).state}
        /\ cCodec' \in {At("Command"), cCodec}
    BY <1>12 DEF Relay, CommandPhase, codecs
  <2>3. phase' \in {"command", "relaying", "replying", "closed"}
        /\ cause' \in {cause, "refused", "broken off"}
    BY <1>12 DEF Relay, CommandPhase, Close
  <2> QED BY <1>2, <1>9, <1>10, <2>1, <2>2, <2>3, States DEF Unproven, Negotiating, Unhurried
<1>13. CASE TooManyRounds \/ AuthStepEnds \/ ServerGone
  BY <1>2, <1>13 DEF TooManyRounds, AuthStepEnds, ServerGone, Close, codecs
<1>14. CASE UpstreamTls
  BY <1>2, <1>14 DEF UpstreamTls, codecs, Unproven, Negotiating, Unhurried
<1> QED BY <1>5, <1>6, <1>7, <1>8, <1>11, <1>12, <1>13, <1>14 DEF AuthNext, ProxyStep

\* The command phase keeps the types: of the decoder, the columns and what is on its way.
LEMMA CommandKeepsTypes ==
    ASSUME AuthInv, SessionTypes, CommandStep
    PROVE  SessionTypes'
<1>1. /\ deprecateEof \in BOOLEAN /\ columns \in Seq(Stmts) /\ uCodec \in DecoderStates
      /\ asked \in {"nothing", "Upload", "Prove", "Spoilt", "lost"} \cup Issued
      /\ commands \in Seq(Sent) /\ requests \in Seq(Forwarded) /\ replies \in Seq(Returned)
      /\ phase \in Unproven \cup {"command", "closed"}
      /\ cause \in {"none", "refused", "broken off", "rounds", "gave up", "protocol", "stopped"}
      /\ Len(commands) <= 1
  BY DEF SessionTypes
<1>2. cCodec' = cCodec /\ rounds' = rounds /\ cCodec \in DecoderStates /\ rounds \in 0..MaxRounds
      /\ Relaying!RelayNext
  BY DEF CommandStep, SessionTypes
<1> DEFINE Frame == /\ phase' \in Unproven \cup {"command", "closed"}
                    /\ cause' \in {"none", "refused", "broken off", "rounds", "gave up",
                                  "protocol", "stopped"}
                    /\ deprecateEof' \in BOOLEAN /\ columns' \in Seq(Stmts)
                    /\ uCodec' \in DecoderStates
           Talk  == /\ asked' \in {"nothing", "Upload", "Prove", "Spoilt", "lost"} \cup Issued
                    /\ requests' \in Seq(Forwarded) /\ replies' \in Seq(Returned)
           One   == commands' \in Seq(Sent) /\ Len(commands') <= 1
           Own   == Frame /\ Talk /\ One
<1>4. SUFFICES Own
  BY <1>2 DEF SessionTypes
<1>5. CASE Relaying!Issue
  <2>1. PICK c \in Relaying!Commands : commands' = <<c>> /\ asked' = c.kind
    BY <1>5 DEF Relaying!Issue
  <2>2. c \in Sent /\ c.kind \in Issued
    BY WhatIsAsked DEF Relaying!Expecting
  <2>3. commands' \in Seq(Sent) /\ Len(commands') = 1
    BY <2>1, <2>2, PairSeq
  <2>4. /\ phase' = phase /\ cause' = cause /\ uCodec' = uCodec
        /\ deprecateEof' = deprecateEof /\ requests' = requests /\ replies' = replies
        /\ columns' = columns
    BY <1>5 DEF Relaying!Issue
  <2>5. Frame BY <1>1, <2>4
  <2>6. Talk  BY <1>1, <2>1, <2>2, <2>4
  <2>7. One   BY <2>3
  <2> QED BY <2>5, <2>6, <2>7
<1>6. CASE Relaying!InReturn
  <2>1. \A kind \in {"Reply", "Data", "Done"} : Relaying!Command(kind, NoStmt) \in Sent
    BY DEF Relaying!Command, Sent
  <2>2. commands' \in Seq(Sent) /\ Len(commands') = 1
    <3>1. \E kind \in {"Reply", "Data", "Done"} : commands' = <<Relaying!Command(kind, NoStmt)>>
      BY <1>6 DEF Relaying!InReturn
    <3> QED BY <2>1, <3>1, PairSeq
  <2>3. asked' \in {asked, "ChangeUser", "Query", "lost"}
    BY <1>6 DEF Relaying!InReturn
  <2>4. /\ phase' = phase /\ cause' = cause /\ uCodec' = uCodec
        /\ deprecateEof' = deprecateEof /\ requests' = requests /\ replies' = replies
        /\ columns' = columns
    BY <1>6 DEF Relaying!InReturn
  <2>5. Frame BY <1>1, <2>4
  <2>6. Talk  BY <1>1, <2>3, <2>4 DEF Issued
  <2>7. One   BY <2>2
  <2> QED BY <2>5, <2>6, <2>7
<1>7. CASE Relaying!Serve
  <2>1. requests # <<>> /\ requests' = <<>> /\ replies' \in Relaying!Answers(Head(requests))
        /\ UNCHANGED <<phase, cause, uCodec, deprecateEof, asked, commands, columns>>
    BY <1>7 DEF Relaying!Serve
  <2>2. Head(requests) \in Forwarded
    BY <1>1, <2>1, HeadTailProperties
  <2>3. replies' \in Seq(Returned)
    BY <1>1, <2>1, <2>2, AnswersTyped
  <2> QED BY <1>1, <2>1, <2>3, EmptySeq
<1>8. CASE Relaying!RefuseBinary
  <2>1. /\ commands' = <<>> /\ asked' \in {"nothing", "Spoilt", "lost"}
        /\ phase' = phase /\ cause' = cause /\ uCodec' = uCodec
        /\ deprecateEof' = deprecateEof /\ requests' = requests /\ replies' = replies
        /\ columns' = columns
    BY <1>8 DEF Relaying!RefuseBinary
  <2>2. commands' \in Seq(Sent) /\ Len(commands') = 0
    BY <2>1, EmptySeq
  <2>3. Frame BY <1>1, <2>1
  <2>4. Talk  BY <1>1, <2>1
  <2>5. One   BY <2>2
  <2> QED BY <2>3, <2>4, <2>5
<1>9. CASE Relaying!ForwardCommand
  <2>1. /\ commands # <<>> /\ Head(commands).kind # "Prepare"
        /\ commands' = <<>> /\ requests' = commands /\ uCodec' = At("Command")
        /\ columns' \in {<<>>, columns}
        /\ UNCHANGED <<phase, cause, deprecateEof, asked, replies>>
    BY <1>9, SameCodec DEF Relaying!ForwardCommand, Relaying!Forward,
                              Relaying!CommandReadAs
  <2>2. commands \in Seq(Forwarded)
    <3>1. Head(commands) \in Forwarded
      BY <1>1, <2>1, HeadTailProperties DEF Forwarded
    <3>2. Len(commands) \in Nat /\ Len(commands) # 0
      BY <1>1, <2>1, EmptySeq
    <3>3. \A n \in Nat : n # 0 /\ n <= 1 => n = 1
      OBVIOUS
    <3>4. Len(commands) = 1
      BY <1>1, <3>2, <3>3
    <3>5. commands = <<Head(commands)>>
      <4>1. commands \in Seq(Sent) /\ <<Head(commands)>> \in Seq(Sent)
        BY <1>1, <2>1, HeadTailProperties, PairSeq
      <4>2. Len(<<Head(commands)>>) = 1 /\ <<Head(commands)>>[1] = Head(commands)
        OBVIOUS
      <4>3. commands[1] = Head(commands)
        BY <1>1, <2>1, TailAt
      <4>4. \A i \in 1..Len(commands) : commands[i] = <<Head(commands)>>[i]
        BY <3>4, <4>2, <4>3
      <4> QED BY <3>4, <4>1, <4>2, <4>4, SeqEqual
    <3> QED BY <3>1, <3>5, PairSeq
  <2>3. At("Command") \in DecoderStates
    BY States
  <2>4. columns' \in Seq(Stmts) /\ commands' \in Seq(Sent) /\ Len(commands') = 0
    BY <1>1, <2>1, EmptySeq
  <2>5. Frame BY <1>1, <2>1, <2>3, <2>4
  <2>6. Talk  BY <1>1, <2>1, <2>2
  <2>7. One   BY <2>4
  <2> QED BY <2>5, <2>6, <2>7
<1>10. CASE Relaying!ForwardReply
  <2> DEFINE packet == Head(replies)
             read   == Decode(uCodec, packet, deprecateEof)
  <2>1. /\ phase = "command" /\ replies # <<>> /\ replies' = Tail(replies)
        /\ UNCHANGED <<deprecateEof, commands, requests>>
        /\ uCodec' \in {uCodec, read.state}
        /\ \/ columns' = columns
           \/ read.kind = "Column" /\ columns' = Append(columns, packet.of)
        /\ asked' \in {asked, Relaying!AskedBy(packet)}
        /\ \/ UNCHANGED <<phase, cause>>
           \/ phase' = "closed" /\ cause' = "protocol"
    BY <1>10, SameCodec DEF Relaying!ForwardReply, Relaying!Close
  <2>2. packet \in Returned /\ Tail(replies) \in Seq(Returned)
    BY <1>1, <2>1, HeadTailProperties
  <2>3. read.state \in DecoderStates
    BY <1>1, <2>2, ReturnedCount, DecodeStays
  <2>4. read.kind = "Column" => packet.of \in Stmts
    <3>1. read.kind = "Column" => packet.kind = "Column"
      BY <1>1, ColumnsAreColumns
    <3> QED BY <2>2, <3>1 DEF Returned
  <2>5. Relaying!AskedBy(packet) \in {"nothing", "Upload", "Prove"}
    BY DEF Relaying!AskedBy
  <2> HIDE DEF packet, read
  <2>6. columns' \in Seq(Stmts)
    <3>1. columns \in Seq(Stmts)
      BY <1>1
    <3>2. packet.of \in Stmts => Append(columns, packet.of) \in Seq(Stmts)
      BY <3>1, AppendProperties
    <3> QED BY <2>1, <2>4, <3>1, <3>2
  <2> QED BY <1>1, <2>1, <2>2, <2>3, <2>5, <2>6
<1>11. CASE Relaying!Stop
  BY <1>1, <1>11 DEF Relaying!Stop, Relaying!Close
<1> QED BY <1>2, <1>5, <1>6, <1>7, <1>8, <1>9, <1>10, <1>11
        DEF Relaying!RelayNext, Relaying!LoopStep

\* A session starts with the types it keeps.
LEMMA InitTypes == Init => SessionTypes
<1> SUFFICES ASSUME Init PROVE SessionTypes
  OBVIOUS
<1>1. /\ phase = "greeting" /\ cause = "none" /\ rounds = 0 /\ asked = "nothing"
      /\ cCodec = At("WaitingHandshake") /\ uCodec = At("WaitingHandshake")
      /\ deprecateEof \in BOOLEAN /\ columns = <<>>
      /\ commands = <<>> /\ requests = <<>> /\ replies = <<>>
  BY DEF Init, AuthInit, Relaying!RelayInit
<1>2. Len(commands) <= 1
  BY <1>1
<1>3. columns \in Seq(Stmts) /\ commands \in Seq(Sent) /\ requests \in Seq(Forwarded)
      /\ replies \in Seq(Returned)
  BY <1>1
<1>4. rounds \in 0..MaxRounds
  BY <1>1, MySqlAuthAssumption
<1>5. At("WaitingHandshake") \in DecoderStates
  BY States
<1> QED BY <1>1, <1>2, <1>3, <1>4, <1>5 DEF SessionTypes, Unproven, Unhurried

\* Every step of a session keeps the types.
LEMMA NextTypes == AuthInv /\ AuthInv' /\ SessionTypes /\ [Next]_vars => SessionTypes'
<1> SUFFICES ASSUME AuthInv, AuthInv', SessionTypes, [Next]_vars PROVE SessionTypes'
  OBVIOUS
<1>1. CASE AuthStep     BY <1>1, AuthKeepsTypes DEF AuthStep
<1>2. CASE CommandStep  BY <1>2, CommandKeepsTypes
<1>3. CASE UNCHANGED vars
  BY <1>3 DEF vars, authVars, relay, progress, codecs, SessionTypes
<1> QED BY <1>1, <1>2, <1>3 DEF Next, Ended

\* The types that are claimed.
LEMMA TypesProve == AuthInv /\ SessionTypes => TypeOK
<1> SUFFICES ASSUME AuthInv, SessionTypes PROVE TypeOK
  OBVIOUS
<1>1. /\ toProxy \in Seq(Packets) /\ toClient \in Seq(Packets)
      /\ toServer \in Seq(Packets) /\ toUs \in Seq(Packets)
  BY OnTheWire
<1>2. AuthTypeOK
  <2>1. phase \in Unhurried \cup {"command", "closed"} \cup Negotiating
    BY DEF SessionTypes, Unproven
  <2>2. mode \in Modes /\ verified \in BOOLEAN /\ seq \in Nat
        /\ client.at \in {"start", "tls", "await", "in", "failed"}
        /\ server.at \in {"start", "await", "tls", "accepted", "rejected"}
    BY DEF AuthInv, Shapes
  <2>3. /\ cause \in {"none", "refused", "broken off", "rounds", "gave up", "protocol",
                     "stopped"}
        /\ cCodec \in DecoderStates /\ uCodec \in DecoderStates /\ rounds \in 0..MaxRounds
    BY DEF SessionTypes
  <2> QED BY <1>1, <2>1, <2>2, <2>3 DEF AuthTypeOK
<1>3. Relaying!RelayTypeOK
  BY SameCodec, WhatIsAsked DEF SessionTypes, Relaying!RelayTypeOK
<1> QED BY <1>2, <1>3 DEF TypeOK

\* A session's state is of its types, for any configuration and any statements: the
\* decoders are in states that exist, the packets on their way and the recorded columns
\* are what the peers and the statements can give, and the round trips are bounded.
THEOREM SessionTyped == Spec => []TypeOK
  BY InitKeeps, NextKeeps, InitTypes, NextTypes, TypesProve, PTL DEF Spec

-----------------------------------------------------------------------------
(* Nothing the peers send is unreadable: authentication *)

\* What the decoders are told to expect, and what a terminating proxy meets.
Readable ==
    /\ phase = "switch" => cCodec = At("WaitingAuthResponse")
    /\ Proving =>
          /\ uCodec = At("WaitingAuthResponse")
          /\ \A i \in DOMAIN toServer : toServer[i].kind # "KeyRequest"
          /\ \A i \in DOMAIN toUs : toUs[i].kind \in {"Switch", "Full", "Fast", "Ok", "Err"}
    /\ cause # "none" => phase = "closed"
    /\ cause = "broken off" => ~mode.terminating

\* A terminating proxy's session is in order.
LEMMA InOrderHere ==
    ASSUME AuthInv, OrderInv, mode.terminating \/ phase = "switch" \/ Proving
    PROVE  mode.terminating /\ Order
  BY DEF AuthInv, Phases, Proving, Relays, OrderInv, Claimed

\* The server answers a proof with what the proxy can read.
LEMMA ServeReadable ==
    ASSUME AuthInv, OrderInv, Readable, Serve
    PROVE  Readable'
<1> DEFINE p == Head(toServer)
<1>1. /\ UNCHANGED <<phase, cause, cCodec, uCodec, mode>>
      /\ toServer # <<>> /\ toServer' = Tail(toServer)
      /\ \E answers \in ServerAnswers(p) : toUs' = toUs \o answers
  BY DEF Serve, progress, codecs
<1>2. ASSUME Proving
      PROVE  /\ \A i \in DOMAIN toServer' : toServer'[i].kind # "KeyRequest"
             /\ \A i \in DOMAIN toUs' :
                   toUs'[i].kind \in {"Switch", "Full", "Fast", "Ok", "Err"}
  <2>1. Order /\ toUs = <<>>
    BY <1>1, <1>2, InOrderHere DEF Order, ServerLeg
  <2>2. p = toServer[1] /\ 1 \in DOMAIN toServer /\ p.kind # "KeyRequest"
    BY <1>1, <1>2, OnTheWire, TailAt DEF Readable
  <2>3. \A i \in DOMAIN toServer' : toServer'[i].kind # "KeyRequest"
    <3>1. \A i \in DOMAIN toServer : toServer[i].kind # "KeyRequest"
      BY <1>2 DEF Readable
    <3>2. \A i \in DOMAIN Tail(toServer) :
             i + 1 \in DOMAIN toServer /\ Tail(toServer)[i] = toServer[i + 1]
      BY <1>1, OnTheWire, TailAt
    <3> QED BY <1>1, <3>1, <3>2
  <2>4. p \in Carried(Provers) /\ mode \in Modes
    BY <1>1, OnTheWire, HeadTailProperties
  <2>5. PICK answers \in ServerAnswers(p) : toUs' = toUs \o answers
    BY <1>1
  <2> HIDE DEF p
  <2>6. \/ answers = <<>>
        \/ \E q \in Packets :
              answers = <<q>> /\ q.kind \in {"Switch", "Full", "Ok", "Err"}
        \/ \E f, o \in Packets :
              f.kind = "Fast" /\ o.kind = "Ok" /\ answers = <<f, o>>
    BY <2>2, <2>4, AnswersNumbered
  <2>7. answers \in Seq(Packets)
    <3>1. <<>> \in Seq(Packets)
      BY EmptySeq
    <3>2. \A q \in Packets : <<q>> \in Seq(Packets)
      BY PairSeq
    <3>3. \A f, o \in Packets : <<f, o>> \in Seq(Packets)
      BY PairSeq
    <3> QED BY <2>6, <3>1, <3>2, <3>3
  <2>8. toUs' = answers
    BY <2>1, <2>5, <2>7
  <2>9. \A i \in DOMAIN answers :
           answers[i].kind \in {"Switch", "Full", "Fast", "Ok", "Err"}
    <3>1. CASE answers = <<>>
      BY <3>1
    <3>2. ASSUME NEW q \in Packets, answers = <<q>>,
                 q.kind \in {"Switch", "Full", "Ok", "Err"}
          PROVE  \A i \in DOMAIN answers :
                    answers[i].kind \in {"Switch", "Full", "Fast", "Ok", "Err"}
      <4>1. DOMAIN answers = {1} /\ answers[1] = q
        BY <3>2
      <4> QED BY <3>2, <4>1
    <3>3. ASSUME NEW f \in Packets, NEW o \in Packets, answers = <<f, o>>,
                 f.kind = "Fast", o.kind = "Ok"
          PROVE  \A i \in DOMAIN answers :
                    answers[i].kind \in {"Switch", "Full", "Fast", "Ok", "Err"}
      <4>1. DOMAIN answers = {1, 2} /\ answers[1] = f /\ answers[2] = o
        BY <3>3
      <4> QED BY <3>3, <4>1
    <3> QED BY <2>6, <3>1, <3>2, <3>3
  <2> QED BY <2>3, <2>8, <2>9
<1> HIDE DEF p
<1> QED BY <1>1, <1>2 DEF Readable, Proving

\* The client touches none of it.
LEMMA ClientReadable ==
    ASSUME Readable, Unsent
    PROVE  Readable'
  BY DEF Readable, Proving, Unsent, progress, codecs

\* Verification hands the server the proxy's response, on an idle leg.
LEMMA VerifyReadable ==
    ASSUME AuthInv, Order, Readable, World, mode.terminating,
           phase \in Before \ {"greeting"}, cCodec' = cCodec \/ phase' # "switch",
           NEW p, Verify(p), toUs' = toUs
    PROVE  Readable'
<1>1. cause' \in {cause, "refused"} /\ mode' = mode /\ toUs' = <<>> /\ cause = "none"
  BY DEF Verify, Close, AuthenticateUpstream, Upstreaming, World, Readable, Order, Turns,
         Proving, Relays, Before
<1>2. CASE Accepts(p) /\ AuthenticateUpstream /\ cause' = cause
  <2> DEFINE r == Proof("Response", 0, "proxy", mode.greeting, "server")
  <2>1. phase' \in {"proving", "upstreamTls"} 
        /\ uCodec' = At("WaitingAuthResponse") /\ toServer' = FirstUpstream(r)
    BY <1>2 DEF AuthenticateUpstream, Upstreaming
  <2>2. r \in Packets /\ r.kind = "Response"
    <3>1. mode.greeting \in {"native", "sha2", "none"} /\ "Response" \in Kinds /\ 0 \in Nat
      BY ModeShape, MySqlAuthAssumption DEF AuthInv, Shapes, Kinds
    <3> QED BY <3>1, ProofShape
  <2> HIDE DEF r
  <2>3. \A i \in DOMAIN toServer' : toServer'[i].kind # "KeyRequest"
    <3>1. \A n \in Nat : [r EXCEPT !.seq = n].kind = "Response"
      BY <2>2 DEF Packets
    <3>2. Packet("SslRequest", 1).kind = "SslRequest"
      BY DEF Packet
    <3>3. toServer' = <<Packet("SslRequest", 1), [r EXCEPT !.seq = 2]>>
          \/ toServer' = <<[r EXCEPT !.seq = 1]>>
      BY <2>1 DEF FirstUpstream
    <3>4. CASE toServer' = <<Packet("SslRequest", 1), [r EXCEPT !.seq = 2]>>
      <4>1. /\ DOMAIN toServer' = {1, 2} /\ toServer'[1] = Packet("SslRequest", 1)
            /\ toServer'[2] = [r EXCEPT !.seq = 2]
        BY <3>4
      <4>2. [r EXCEPT !.seq = 2].kind # "KeyRequest"
        BY <3>1
      <4> QED BY <3>2, <4>1, <4>2
    <3>5. CASE toServer' = <<[r EXCEPT !.seq = 1]>>
      <4>1. DOMAIN toServer' = {1} /\ toServer'[1] = [r EXCEPT !.seq = 1]
        BY <3>5
      <4>2. [r EXCEPT !.seq = 1].kind # "KeyRequest"
        BY <3>1
      <4> QED BY <4>1, <4>2
    <3> QED BY <3>3, <3>4, <3>5
  <2> QED BY <1>1, <1>2, <2>1, <2>3 DEF Readable, Proving
<1>3. CASE Close("refused")
  BY <1>1, <1>3 DEF Close, Readable, Proving
<1> QED BY <1>2, <1>3 DEF Verify

\* authenticate_upstream reads what comes as what it is, and answers all of it or says
\* why not.
LEMMA ProveReadable ==
    ASSUME AuthInv, OrderInv, Readable, Prove
    PROVE  Readable'
<1> DEFINE p == Head(toUs)
           read == Decode(uCodec, p, FALSE)
<1>1. /\ phase = "proving" /\ TakeFromServer /\ toUs' = Tail(toUs) /\ World
      /\ uCodec = At("WaitingAuthResponse") /\ cause = "none"
      /\ mode' = mode /\ server' = server
  BY DEF Prove, NextRound, TakeFromServer, World, Readable, Proving
<1>2. Order /\ toServer = <<>> /\ p \in Packets /\ p = toUs[1] /\ 1 \in DOMAIN toUs
  BY <1>1, InOrderHere, TakenFromServer DEF Proving
<1>3. p.kind \in {"Switch", "Full", "Fast", "Ok", "Err"}
  BY <1>1, <1>2 DEF Readable, Proving
<1>4. read = InAuth(p)
  BY <1>1 DEF Decode, At
<1>5. \A i \in DOMAIN toUs' : toUs'[i].kind \in {"Switch", "Full", "Fast", "Ok", "Err"}
  BY <1>1, OnTheWire, TailAt DEF Readable, Proving, TakeFromServer
<1> HIDE DEF p, read
<1>6. CASE CommandPhase /\ cause' = cause
  BY <1>1, <1>6 DEF CommandPhase, Readable, Proving
<1>7. CASE /\ read.kind = "Generic" /\ uCodec' = read.state
           /\ \E reply \in UpstreamReply(p) : toServer' = toServer \o reply
           /\ UNCHANGED <<phase, cause, cCodec, toClient>>
  <2>1. uCodec' = At("WaitingAuthResponse")
    BY <1>4, <1>7 DEF InAuth, Read
  <2>2. PICK reply \in UpstreamReply(p) : toServer' = toServer \o reply
    BY <1>7
  <2>3. reply \in Seq(Carried({"none", "proxy"}))
    BY <1>2, <2>2, OwnReply
  <2>4. toServer' = reply
    BY <1>2, <2>2, <2>3
  <2>5. \A i \in DOMAIN reply : reply[i].kind # "KeyRequest"
    <3>1. \A kind \in Proofs : \A n, who, plugin, whose :
             Proof(kind, n, who, plugin, whose).kind # "KeyRequest"
      BY DEF Proof, Packet, Proofs
    <3>2. CASE p.kind = "Switch"
      BY <3>1, <3>2 DEF UpstreamReply, Proofs
    <3>3. CASE p.kind = "Full"
      BY <3>1, <3>3 DEF UpstreamReply, Proofs, Password
    <3>4. CASE p.kind = "Fast"
      BY <3>4 DEF UpstreamReply
    <3> QED BY <1>3, <2>2, <3>2, <3>3, <3>4 DEF UpstreamReply
  <2> QED BY <1>1, <1>5, <1>7, <2>1, <2>4, <2>5 DEF Readable, Proving
<1>8. CASE /\ read.kind # "Ok"
           /\ read.kind = "Generic" => UpstreamReply(p) = {}
           /\ Fail(IF p.kind \in {"Err", "Full"} THEN "refused" ELSE "broken off")
  <2>1. p.kind \in {"Err", "Full"}
    <3>1. p.kind \notin {"Switch", "Fast"}
      <4>1. p.kind \in {"Switch", "Fast"} => read.kind = "Generic" /\ UpstreamReply(p) # {}
        BY <1>4 DEF InAuth, Read, UpstreamReply
      <4> QED BY <1>8, <4>1
    <3>2. p.kind # "Ok"
      BY <1>4, <1>8 DEF InAuth, Read
    <3> QED BY <1>3, <3>1, <3>2
  <2>2. phase' = "closed" /\ cause' = "refused"
    BY <1>8, <2>1 DEF Fail, Close
  <2> QED BY <1>1, <2>2 DEF Readable, Proving
<1> QED BY <1>6, <1>7, <1>8 DEF Prove, p, read

\* The authentication phases keep it, each step in its place.
LEMMA AuthReadable ==
    ASSUME AuthInv, OrderInv, Readable, AuthNext
    PROVE  Readable'
<1>1. CASE Greet
  <2>1. /\ server.at = "start" /\ UNCHANGED <<phase, cause, cCodec, uCodec, mode, toServer>>
    BY <1>1 DEF Greet, progress, codecs
  <2>2. ~Proving
    BY <2>1, InOrderHere DEF Order, ServerLeg, Proving
  <2> QED BY <2>1, <2>2 DEF Readable, Proving
<1>2. CASE Serve
  BY <1>2, ServeReadable
<1>3. CASE ClientStep
  BY <1>3, ClientReadable DEF ClientStep, MeetsProxy, RespondsOverTls, Switches, SendsPassword,
     UsesKey, Waits, Learns
<1>4. CASE Greeting \/ UpgradeClient \/ RelayReply
  BY <1>4 DEF Greeting, UpgradeClient, RelayReply, Readable, Proving, World
<1>5. CASE Response
  <2>1. /\ phase \in Before \ {"greeting"} /\ World /\ toUs' = toUs /\ cause = "none"
        /\ mode' = mode
    BY <1>5 DEF Response, Before, Readable, World
  <2>2. CASE ~mode.terminating /\ phase' = Upstreaming("relaying") /\ cause' = cause
    BY <2>1, <2>2 DEF Readable, Proving, Upstreaming
  <2>3. CASE mode.terminating /\ Verify(Head(toProxy))
    <3>1. phase' # "switch"
      BY <2>3 DEF Verify, AuthenticateUpstream, Upstreaming, Close
    <3> QED BY <2>1, <2>3, <3>1, InOrderHere, VerifyReadable
  <2>4. CASE AskToSwitch(Head(toProxy))
    BY <2>1, <2>4 DEF AskToSwitch, Readable, Proving
  <2> QED BY <1>5, <2>2, <2>3, <2>4 DEF Response
<1>6. CASE SwitchReply
  <2>1. /\ phase = "switch" /\ World /\ toUs' = toUs /\ cCodec' = cCodec
        /\ mode.terminating /\ Order /\ cCodec = At("WaitingAuthResponse")
    BY <1>6, InOrderHere DEF SwitchReply, Readable, Proving
  <2>2. ReplyReadAs(cCodec) = {"Generic"}
    BY <2>1 DEF ReplyReadAs, At
  <2>3. Verify(Head(toProxy))
    BY <1>6, <2>2 DEF SwitchReply
  <2> QED BY <2>1, <2>3, VerifyReadable DEF Before
<1>7. CASE Prove
  BY <1>7, ProveReadable
<1>8. CASE Relay
  <2>1. /\ ~mode.terminating /\ mode' = mode /\ cause = "none"
        /\ \/ phase' \in {"command", "relaying", "replying"} /\ cause' = cause
           \/ phase' = "closed"
    BY <1>8 DEF Relay, World, AuthInv, Phases, Proving, Relays, Readable, CommandPhase, Close
  <2> QED BY <2>1 DEF Readable, Proving
<1>9. CASE TooManyRounds \/ AuthStepEnds \/ ServerGone
  BY <1>9 DEF TooManyRounds, AuthStepEnds, ServerGone, Close, Readable, Proving,
     World
<1>10. CASE UpstreamTls
  BY <1>10 DEF UpstreamTls, codecs, Readable, Proving
<1> QED BY <1>1, <1>2, <1>3, <1>4, <1>5, <1>6, <1>7, <1>8, <1>9, <1>10 DEF AuthNext, ProxyStep

\* The command phase has nothing to do with it.
LEMMA CommandReadable ==
    ASSUME Readable, CommandStep
    PROVE  Readable'
<1>1. UNCHANGED <<mode, cCodec, toServer, toUs>>
  BY DEF CommandStep
<1>2. \/ phase = "command" /\ phase' = phase /\ cause' = cause
      \/ phase' = "closed" /\ cause' \in {"protocol", "stopped"}
      \/ phase' = phase /\ uCodec' = uCodec /\ cause' = cause
  BY DEF CommandStep, Relaying!RelayNext, Relaying!Issue, Relaying!Serve,
         Relaying!InReturn, Relaying!LoopStep, Relaying!RefuseBinary, Relaying!Forward,
         Relaying!ForwardCommand, Relaying!ForwardReply, Relaying!Stop, Relaying!Close
<1> QED BY <1>1, <1>2 DEF Readable, Proving

-----------------------------------------------------------------------------
(* Whose turn it is in the command phase *)

\* What may be on its way to the server, going by what the client waits for.
For(kind) ==
    CASE asked = "Query"      -> kind \in {"Query", "Done"}
      [] asked = "ChangeUser" -> kind \in {"ChangeUser", "Reply"}
      [] asked \in {"Upload", "Spoilt"} -> kind = "Data"
      [] asked = "lost"       -> kind = "Done"
      [] OTHER                -> kind = asked

\* The client waits for an answer before it goes on, and the decoder is at the start of
\* one while the server has not answered.
CommandTurns ==
    /\ phase \in Unproven => asked = "nothing"
    /\ Len(requests) <= 1
    /\ \A i \in DOMAIN commands : For(commands[i].kind)
    /\ \A i \in DOMAIN requests :
          /\ For(requests[i].kind)
          /\ uCodec = At("Command")
          /\ requests[i].kind = "Query" => columns = <<>>
    /\ commands = <<>> \/ requests = <<>>
    /\ replies # <<>> => /\ commands = <<>> /\ requests = <<>>
                         /\ asked \in {"Query", "FieldList", "Ping", "Stats", "ChangeUser",
                                       "lost"}

\* A wire that carries something carries it first.
LEMMA FirstOfOne ==
    ASSUME NEW S, NEW wire \in Seq(S), wire # <<>>
    PROVE  1 \in DOMAIN wire /\ Head(wire) = wire[1] /\ Head(wire) \in S
  BY TailAt, HeadTailProperties

\* While the client waits for nothing, nothing is on its way.
LEMMA NothingAsked ==
    ASSUME SessionTypes, CommandTurns, asked = "nothing"
    PROVE  commands = <<>> /\ requests = <<>> /\ replies = <<>>
<1>1. commands \in Seq(Sent) /\ requests \in Seq(Forwarded)
  BY DEF SessionTypes
<1>2. \A c \in Sent : ~For(c.kind)
  BY DEF For, Sent, Issued
<1>3. commands = <<>>
  BY <1>1, <1>2, FirstOfOne DEF CommandTurns
<1>4. requests = <<>>
  BY <1>1, <1>2, FirstOfOne DEF CommandTurns, Forwarded
<1>5. replies = <<>>
  BY DEF CommandTurns
<1> QED BY <1>3, <1>4, <1>5

\* Authentication comes before all of it.
LEMMA AuthTurns ==
    ASSUME AuthInv, SessionTypes, CommandTurns, AuthNext, UNCHANGED relay
    PROVE  CommandTurns'
<1>1. UNCHANGED <<deprecateEof, asked, commands, requests, replies, columns, shown>>
  BY DEF relay
<1>2. \/ phase' = phase /\ uCodec' = uCodec
      \/ phase \in Unproven
  BY DEF AuthNext, Greet, Serve, ClientStep, MeetsProxy, RespondsOverTls, Switches,
         SendsPassword,
         UsesKey, Waits, Learns, Unsent, ProxyStep, Greeting, UpgradeClient, Response,
         SwitchReply, Prove, Relay, RelayReply, UpstreamTls, TooManyRounds, AuthStepEnds, ServerGone,
         progress, codecs, Unproven, Negotiating, Unhurried
<1>3. CASE phase' = phase /\ uCodec' = uCodec
  BY <1>1, <1>3 DEF CommandTurns, For
<1>4. CASE phase \in Unproven
  <2>1. asked = "nothing"
    BY <1>4 DEF CommandTurns
  <2>2. commands' = <<>> /\ requests' = <<>> /\ replies' = <<>> /\ asked' = "nothing"
    BY <1>1, <2>1, NothingAsked
  <2>3. DOMAIN commands' = {} /\ DOMAIN requests' = {} /\ Len(requests') = 0
    BY <2>2
  <2> QED BY <2>2, <2>3 DEF CommandTurns
<1> QED BY <1>2, <1>3, <1>4

\* Nobody speaks out of turn.
LEMMA CommandsInTurn ==
    ASSUME SessionTypes, CommandTurns, CommandStep
    PROVE  CommandTurns'
<1>1. /\ commands \in Seq(Sent) /\ requests \in Seq(Forwarded) /\ replies \in Seq(Returned)
      /\ asked \in {"nothing", "Upload", "Prove", "Spoilt", "lost"} \cup Issued
      /\ Len(commands) <= 1
  BY DEF SessionTypes
<1>2. CASE Relaying!Issue
  <2>1. /\ phase = "command" /\ asked = "nothing" /\ phase' = phase
        /\ requests' = requests /\ replies' = replies /\ uCodec' = uCodec
        /\ columns' = columns
    BY <1>2 DEF Relaying!Issue
  <2>2. PICK c \in Relaying!Commands : commands' = <<c>> /\ asked' = c.kind
    BY <1>2 DEF Relaying!Issue
  <2>3. requests' = <<>> /\ replies' = <<>>
    BY <2>1, NothingAsked
  <2>4. DOMAIN requests' = {} /\ Len(requests') = 0
    BY <2>3
  <2>5. DOMAIN commands' = {1} /\ commands'[1] = c
    BY <2>2
  <2>6. c.kind \in Issued
    BY WhatIsAsked DEF Relaying!Expecting
  <2>7. For(c.kind)'
    BY <2>2, <2>6 DEF For, Issued
  <2>8. phase' \notin Unproven
    BY <2>1 DEF Unproven, Negotiating, Unhurried
  <2>9. \A i \in DOMAIN commands' : For(commands[i].kind)'
    BY <2>5, <2>7
  <2> QED BY <2>3, <2>4, <2>8, <2>9 DEF CommandTurns
<1>3. CASE Relaying!InReturn
  <2>1. /\ phase = "command" /\ phase' = phase /\ requests = <<>>
        /\ requests' = requests /\ replies' = replies /\ uCodec' = uCodec
        /\ asked \in {"Prove", "Upload", "Spoilt"}
    BY <1>3 DEF Relaying!InReturn
  <2>2. PICK kind \in {"Reply", "Data", "Done"} :
           /\ commands' = <<Relaying!Command(kind, NoStmt)>>
           /\ kind = "Reply" => asked' = "ChangeUser"
           /\ kind = "Data"  => asked' \in {"Upload", "Spoilt"}
           /\ kind = "Done"  => asked' \in {"Query", "lost"}
    <3>1. CASE asked = "Prove" /\ commands' = <<Relaying!Command("Reply", NoStmt)>>
               /\ asked' = "ChangeUser"
      BY <3>1
    <3>2. CASE asked \in {"Upload", "Spoilt"} /\ commands' = <<Relaying!Command("Data", NoStmt)>>
               /\ asked' = asked
      BY <3>2
    <3>3. CASE asked \in {"Upload", "Spoilt"} /\ commands' = <<Relaying!Command("Done", NoStmt)>>
               /\ asked' \in {"Query", "lost"}
      BY <3>3
    <3> QED BY <1>3, <3>1, <3>2, <3>3 DEF Relaying!InReturn
  <2>3. requests' = <<>> /\ replies' = <<>>
    BY <2>1 DEF CommandTurns
  <2>4. DOMAIN requests' = {} /\ Len(requests') = 0
    BY <2>3
  <2>5. DOMAIN commands' = {1} /\ commands'[1].kind = kind
    BY <2>2 DEF Relaying!Command
  <2>6. For(kind)'
    BY <2>2 DEF For
  <2>7. phase' \notin Unproven
    BY <2>1 DEF Unproven, Negotiating, Unhurried
  <2>8. \A i \in DOMAIN commands' : For(commands[i].kind)'
    BY <2>5, <2>6
  <2> QED BY <2>3, <2>4, <2>7, <2>8 DEF CommandTurns
<1>4. CASE Relaying!Serve
  <2>1. /\ requests # <<>> /\ requests' = <<>> /\ replies' \in Relaying!Answers(Head(requests))
        /\ UNCHANGED <<phase, uCodec, asked, commands, columns>>
    BY <1>4 DEF Relaying!Serve
  <2>2. Head(requests) \in Forwarded /\ For(Head(requests).kind)
    BY <1>1, <2>1, FirstOfOne DEF CommandTurns
  <2>3. commands' = <<>>
    BY <2>1 DEF CommandTurns
  <2>4. asked \notin {"nothing", "Prove", "Prepare"}
    BY <2>2 DEF For, Forwarded, Sent, Issued
  <2>5. asked \in {"Upload", "Spoilt"} => replies' = <<>>
    <3>1. asked \in {"Upload", "Spoilt"} => Head(requests).kind = "Data"
      BY <2>2 DEF For
    <3> QED BY <2>1, <3>1 DEF Relaying!Answers
  <2>6. DOMAIN requests' = {} /\ Len(requests') = 0 /\ DOMAIN commands' = {}
    BY <2>1, <2>3
  <2>7. replies' # <<>> =>
           asked' \in {"Query", "FieldList", "Ping", "Stats", "ChangeUser", "lost"}
    BY <1>1, <2>1, <2>4, <2>5 DEF Issued
  <2>8. phase' \in Unproven => asked' = "nothing"
    BY <2>1 DEF CommandTurns
  <2> QED BY <2>1, <2>3, <2>6, <2>7, <2>8 DEF CommandTurns
<1>5. CASE Relaying!RefuseBinary
  <2>1. /\ phase = "command" /\ phase' = phase /\ commands # <<>> /\ commands' = <<>>
        /\ requests' = requests /\ replies' = replies
    BY <1>5 DEF Relaying!RefuseBinary
  <2>2. requests' = <<>> /\ replies' = <<>>
    BY <2>1 DEF CommandTurns
  <2>3. DOMAIN requests' = {} /\ Len(requests') = 0 /\ DOMAIN commands' = {}
    BY <2>1, <2>2
  <2>4. phase' \notin Unproven
    BY <2>1 DEF Unproven, Negotiating, Unhurried
  <2> QED BY <2>1, <2>2, <2>3, <2>4 DEF CommandTurns
<1>6. CASE Relaying!ForwardCommand
  <2>1. /\ phase = "command" /\ phase' = phase /\ commands # <<>> /\ commands' = <<>>
        /\ requests' = commands /\ replies' = replies /\ asked' = asked
        /\ uCodec' = At("Command")
    BY <1>6, SameCodec DEF Relaying!ForwardCommand, Relaying!Forward
  <2>2. Head(commands).kind = "Query" => columns' = <<>>
    BY <1>6 DEF Relaying!ForwardCommand, Relaying!CommandReadAs
  <2>3. replies' = <<>>
    BY <2>1 DEF CommandTurns
  <2>4. phase' \notin Unproven
    BY <2>1 DEF Unproven, Negotiating, Unhurried
  <2>5. Len(commands) \in Nat /\ 1 \in DOMAIN commands /\ Head(commands) = commands[1]
        /\ DOMAIN commands = 1..Len(commands)
    BY <1>1, <2>1, TailAt
  <2>6. \A i \in DOMAIN requests' : i = 1 /\ requests'[i] = Head(commands)
    BY <1>1, <2>1, <2>5
  <2>7. \A i \in DOMAIN requests' : For(requests[i].kind)'
    <3>1. PICK c : c = Head(commands)
      OBVIOUS
    <3>2. For(c.kind)
      BY <2>5, <3>1 DEF CommandTurns
    <3>3. For(c.kind)'
      BY <2>1, <3>2 DEF For
    <3> QED BY <2>6, <3>1, <3>3
  <2>8. \A i \in DOMAIN requests' : requests'[i].kind = "Query" => columns' = <<>>
    BY <2>2, <2>6
  <2>9. Len(requests') <= 1 /\ DOMAIN commands' = {}
    BY <1>1, <2>1
  <2> QED BY <2>1, <2>3, <2>4, <2>7, <2>8, <2>9 DEF CommandTurns
<1>7. CASE Relaying!ForwardReply
  <2>1. /\ phase = "command" /\ phase' \in {phase, "closed"} /\ replies # <<>>
        /\ replies' = Tail(replies) /\ commands' = commands /\ requests' = requests
        /\ Tail(replies) # <<>> => asked' = asked
    BY <1>7 DEF Relaying!ForwardReply, Relaying!Close
  <2>2. commands' = <<>> /\ requests' = <<>>
        /\ asked \in {"Query", "FieldList", "Ping", "Stats", "ChangeUser", "lost"}
    BY <2>1 DEF CommandTurns
  <2>3. DOMAIN requests' = {} /\ Len(requests') = 0 /\ DOMAIN commands' = {}
    BY <2>2
  <2>4. phase' \notin Unproven
    BY <2>1 DEF Unproven, Negotiating, Unhurried
  <2> QED BY <2>1, <2>2, <2>3, <2>4 DEF CommandTurns
<1>8. CASE Relaying!Stop
  <2>1. phase' \notin Unproven
        /\ UNCHANGED <<uCodec, asked, commands, requests, replies, columns>>
    BY <1>8 DEF Relaying!Stop, Relaying!Close, Unproven, Negotiating, Unhurried
  <2> QED BY <2>1 DEF CommandTurns, For
<1> QED BY <1>2, <1>3, <1>4, <1>5, <1>6, <1>7, <1>8
        DEF CommandStep, Relaying!RelayNext, Relaying!LoopStep

-----------------------------------------------------------------------------
(* The rest of an answer and the decoder agree *)

\* Where the decoder is, and how many columns are recorded, when left packets of a
\* result set of n columns are still to come.
Reading(n, left) ==
    CASE left = Whole(n)            -> At("Command")
      [] left <= 3                  -> At("ReadingRows")
      [] left = 4 /\ ~deprecateEof  -> ReadingColumns(1)
      [] OTHER                      -> ReadingColumns(left - (Eofs + 3))
Known(n, left) ==
    CASE left = Whole(n)   -> 0
      [] left <= Eofs + 3  -> n
      [] OTHER             -> n - (left - (Eofs + 3))

InResult(s, n, end) ==
    /\ Len(replies) \in 1..Whole(n)
    /\ \A i \in DOMAIN replies : replies[i] = Due(s, n, end, Len(replies) - i)
    /\ uCodec = Reading(n, Len(replies))
    /\ Len(columns) = Known(n, Len(replies))
    /\ \A i \in DOMAIN columns : columns[i] = s

InShort(kinds) ==
    /\ uCodec = At("Command")
    /\ Len(replies) = 1
    /\ \A i \in DOMAIN replies : replies[i].kind \in kinds

\* What the client has been shown last.
Seen == /\ RowsOwnColumns
        /\ shown.packet.kind = "Refusal" => shown.readAs \in {"Prepare", "Reply", "Data"}

\* The answer to a query is short, or what is left of one result set.
Answering ==
    /\ replies # <<>> /\ asked = "Query" =>
          \/ InShort({"Ok", "Err", "Infile"})
          \/ \E s \in Stmts, n \in 1..MaxColumns, end \in {"End", "Eof", "Err"} :
                InResult(s, n, end)
    /\ replies # <<>> /\ asked \in {"Ping", "Stats", "lost"} => InShort({"Ok", "Err", "Text"})
    /\ asked # "Query" =>
          \A i \in DOMAIN replies : replies[i].kind \notin {"Row", "HugeRow"}
    /\ Seen
    /\ cause = "protocol" => asked \in {"ChangeUser", "FieldList"}

\* The decoder reads the next packet of a result set as what it is, and is then where
\* it should be for the one after.
LEMMA ReadsResult ==
    ASSUME deprecateEof \in BOOLEAN, NEW s \in Stmts, NEW n \in 1..MaxColumns,
           NEW end \in {"End", "Eof", "Err"}, NEW left \in 1..Whole(n)
    PROVE  LET p    == Due(s, n, end, left - 1)
               read == Decode(Reading(n, left), p, deprecateEof)
           IN /\ read.kind # "Malformed"
              /\ left > 1 => /\ read.state = Reading(n, left - 1)
                             /\ Known(n, left - 1) =
                                  Known(n, left) + (IF read.kind = "Column" THEN 1 ELSE 0)
              /\ read.kind = "Column" => left > 1 /\ p.of = s
              /\ p.kind \in {"Row", "HugeRow"} =>
                    read.kind = "Row" /\ p.n = n /\ p.of = s /\ Known(n, left) = n
<1> DEFINE p    == Due(s, n, end, left - 1)
           read == Decode(Reading(n, left), p, deprecateEof)
<1>1. /\ n \in Nat /\ n >= 1 /\ Eofs \in {0, 1} /\ (Eofs = 1 <=> ~deprecateEof)
      /\ left \in Nat /\ left >= 1 /\ left <= n + Eofs + 4 /\ Whole(n) = n + Eofs + 4
  <2>1. Eofs \in {0, 1} /\ (Eofs = 1 <=> ~deprecateEof)
    BY DEF Eofs
  <2>2. n \in Nat /\ n >= 1 /\ Whole(n) = n + Eofs + 4
    BY MySqlCodecAssumption DEF Whole
  <2> QED BY <2>1, <2>2
<1> HIDE DEF p, read
<1>2. CASE left = Whole(n)
  <2>1. /\ left - 1 = n + Eofs + 3 /\ left - 1 \notin {0, 1, 2}
        /\ ~(left - 1 = 3 /\ ~deprecateEof)
    BY <1>1, <1>2
  <2>2. p = Relaying!Answer("Count", s, n)
    BY <2>1 DEF p, Due
  <2>3. p.kind = "Count" /\ p.n = n /\ p.of = s
    BY <2>2 DEF Relaying!Answer
  <2>4. Reading(n, left) = At("Command") /\ Known(n, left) = 0
    <3>1. ~(left <= 3) /\ ~(left = 4 /\ ~deprecateEof) /\ ~(left <= Eofs + 3)
      BY <1>1, <1>2
    <3> QED BY <1>2, <3>1 DEF Reading, Known
  <2>5. read = Read("Generic", ReadingColumns(n))
    BY <2>3, <2>4 DEF read, Decode, At, InCommand, CountOf, BeginsFE
  <2>6. read.kind = "Generic" /\ read.state = ReadingColumns(n)
    BY <2>5 DEF Read
  <2>7. /\ left - 1 # Whole(n) /\ ~(left - 1 <= 3) /\ ~(left - 1 = 4 /\ ~deprecateEof)
        /\ left - 1 - (Eofs + 3) = n /\ ~(left - 1 <= Eofs + 3)
    BY <1>1, <1>2
  <2>8. Reading(n, left - 1) = ReadingColumns(n)
    BY <2>7 DEF Reading
  <2>9. Known(n, left - 1) = n - n
    BY <2>7 DEF Known
  <2> QED BY <1>1, <2>3, <2>4, <2>6, <2>8, <2>9 DEF p, read
<1>3. CASE left # Whole(n) /\ left > Eofs + 3
  <2>1. PICK d \in Nat : d = left - (Eofs + 3) /\ d >= 1 /\ d <= n
    BY <1>1, <1>3
  <2>2. /\ left - 1 \notin {0, 1, 2} /\ ~(left - 1 = 3 /\ ~deprecateEof)
        /\ left - 1 # n + Eofs + 3 /\ ~(left <= 3) /\ ~(left = 4 /\ ~deprecateEof)
        /\ ~(left <= Eofs + 3) /\ left - 1 # Whole(n)
    BY <1>1, <1>3
  <2>3. p = Relaying!Answer("Column", s, n)
    BY <2>2 DEF p, Due
  <2>4. p.kind = "Column" /\ p.of = s
    BY <2>3 DEF Relaying!Answer
  <2>5. Reading(n, left) = ReadingColumns(d) /\ Known(n, left) = n - d
    BY <1>3, <2>1, <2>2 DEF Reading, Known
  <2>6. /\ read.kind = "Column"
        /\ read.state = IF d > 1 THEN ReadingColumns(d - 1)
                        ELSE IF deprecateEof THEN At("ReadingRows") ELSE ReadingColumns(d)
    BY <2>4, <2>5 DEF read, Decode, ReadingColumns, InColumns, Read
  <2>7. CASE d > 1
    <3>1. /\ ~(left - 1 <= 3) /\ ~(left - 1 = 4 /\ ~deprecateEof)
          /\ left - 1 - (Eofs + 3) = d - 1 /\ ~(left - 1 <= Eofs + 3)
      BY <1>1, <1>3, <2>1, <2>7
    <3>2. Reading(n, left - 1) = ReadingColumns(d - 1)
      BY <2>2, <3>1 DEF Reading
    <3>3. Known(n, left - 1) = n - (d - 1)
      BY <2>2, <3>1 DEF Known
    <3>4. n - (d - 1) = (n - d) + 1 /\ left > 1
      BY <1>1, <1>3, <2>1
    <3> QED BY <2>4, <2>5, <2>6, <2>7, <3>2, <3>3, <3>4 DEF p, read
  <2>8. CASE d = 1
    <3>1. left - 1 = Eofs + 3 /\ left > 1 /\ (n - 1) + 1 = n
      BY <1>1, <2>1, <2>8
    <3>2. Known(n, left - 1) = n
      BY <2>2, <3>1 DEF Known
    <3>3. CASE deprecateEof
      <4>1. left - 1 = 3
        BY <1>1, <3>1, <3>3
      <4>2. Reading(n, left - 1) = At("ReadingRows")
        BY <2>2, <4>1 DEF Reading
      <4>3. read.state = At("ReadingRows")
        BY <2>6, <2>8, <3>3
      <4>4. Known(n, left - 1) = Known(n, left) + 1
        BY <2>5, <2>8, <3>1, <3>2
      <4> QED BY <2>4, <2>6, <3>1, <4>2, <4>3, <4>4 DEF p, read
    <3>4. CASE ~deprecateEof
      <4>1. left - 1 = 4 /\ ~(left - 1 <= 3)
        BY <1>1, <3>1, <3>4
      <4>2. Reading(n, left - 1) = ReadingColumns(1)
        BY <2>2, <3>4, <4>1 DEF Reading
      <4> QED BY <2>4, <2>5, <2>6, <2>8, <3>1, <3>2, <3>4, <4>2 DEF p, read
    <3> QED BY <3>3, <3>4
  <2> QED BY <2>1, <2>7, <2>8
<1>4. CASE left = 4 /\ ~deprecateEof
  <2>1. left # Whole(n) /\ ~(left <= 3) /\ left <= Eofs + 3 /\ left - 1 = 3 /\ 3 # Whole(n)
        /\ 3 <= Eofs + 3
    BY <1>1, <1>4
  <2>2. p = Relaying!Short("Eof")
    <3>1. 3 # n + Eofs + 3
      BY <1>1
    <3> QED BY <1>4, <2>1, <3>1 DEF p, Due
  <2>3. p.kind = "Eof"
    BY <2>2 DEF Relaying!Short, Relaying!Answer
  <2>4. Reading(n, left) = ReadingColumns(1) /\ Known(n, left) = n
    BY <1>4, <2>1 DEF Reading, Known
  <2>5. read = Read("Eof", At("ReadingRows"))
    BY <1>4, <2>3, <2>4 DEF read, Decode, ReadingColumns, InColumns
  <2>6. Reading(n, left - 1) = At("ReadingRows") /\ Known(n, left - 1) = n
    BY <2>1 DEF Reading, Known
  <2>7. read.kind = "Eof" /\ read.state = At("ReadingRows")
    BY <2>5 DEF Read
  <2> QED BY <1>1, <2>3, <2>4, <2>6, <2>7 DEF p, read
<1>5. CASE left <= 3
  <2>1. left # Whole(n) /\ left <= Eofs + 3 /\ left - 1 # Whole(n) /\ left - 1 <= 3
        /\ left - 1 <= Eofs + 3
    BY <1>1, <1>5
  <2>2. /\ Reading(n, left) = At("ReadingRows") /\ Known(n, left) = n
        /\ Reading(n, left - 1) = At("ReadingRows") /\ Known(n, left - 1) = n
    BY <1>5, <2>1 DEF Reading, Known
  <2>3. read = InRows(p)
    BY <2>2 DEF read, Decode, At
  <2>4. CASE left = 1
    <3>1. p = Relaying!Short(end)
      <4>1. left - 1 = 0 /\ 0 # n + Eofs + 3
        BY <1>1, <2>4
      <4> QED BY <4>1 DEF p, Due
    <3>2. p.kind \in {"End", "Eof", "Err"}
      BY <3>1 DEF Relaying!Short, Relaying!Answer
    <3>3. read.kind \in {"Generic", "Err"}
      BY <2>3, <3>2 DEF InRows, BeginsFE, Read
    <3> QED BY <2>4, <3>2, <3>3 DEF p, read
  <2>5. CASE left \in {2, 3}
    <3>1. p \in {Relaying!Answer("Row", s, n), Relaying!Answer("HugeRow", s, n)}
      <4>1. left - 1 \in {1, 2} /\ 1 # n + Eofs + 3 /\ 2 # n + Eofs + 3
        BY <1>1, <2>5
      <4> QED BY <4>1 DEF p, Due
    <3>2. p.kind \in {"Row", "HugeRow"} /\ p.n = n /\ p.of = s
      BY <3>1 DEF Relaying!Answer
    <3>3. read.kind = "Row" /\ read.state = At("ReadingRows")
      BY <2>3, <3>2 DEF InRows, BeginsFE, Read
    <3> QED BY <1>1, <2>2, <3>2, <3>3 DEF p, read
  <2> QED BY <1>1, <1>5, <2>4, <2>5
<1> QED
  <2>1. left = Whole(n) \/ (left # Whole(n) /\ left > Eofs + 3)
        \/ (left = 4 /\ ~deprecateEof) \/ left <= 3
    BY <1>1
  <2> QED BY <1>2, <1>3, <1>4, <1>5, <2>1

\* At the start of an answer the decoder stumbles over nothing.
LEMMA ReadsFirst ==
    ASSUME NEW p
    PROVE  Decode(At("Command"), p, deprecateEof).kind # "Malformed"
  BY DEF Decode, At, InCommand, Read, BeginsFE

\* The capability is agreed on once: what is left of a result set stays its rest.
LEMMA RestOfResult ==
    ASSUME deprecateEof' = deprecateEof, NEW s, NEW n, NEW end,
           Len(replies') \in 1..Whole(n),
           \A i \in DOMAIN replies' : replies'[i] = Due(s, n, end, Len(replies') - i),
           uCodec' = Reading(n, Len(replies')),
           Len(columns') = Known(n, Len(replies')),
           \A i \in DOMAIN columns' : columns'[i] = s
    PROVE  InResult(s, n, end)'
<1>1. Eofs' = Eofs
  BY DEF Eofs
<1>2. /\ Whole(n)' = Whole(n) /\ Reading(n, Len(replies))' = Reading(n, Len(replies'))
      /\ Known(n, Len(replies))' = Known(n, Len(replies'))
      /\ \A i : Due(s, n, end, Len(replies) - i)' = Due(s, n, end, Len(replies') - i)
  BY <1>1 DEF Whole, Reading, Known, Due
<1> QED BY <1>2 DEF InResult

\* What a COM_QUERY is answered with, when it brings one result set at most.
LEMMA AnswersToQuery ==
    ASSUME NEW request \in Forwarded, NEW answer \in Relaying!Answers(request),
           request.kind = "Query", ~MultiResults, deprecateEof \in BOOLEAN
    PROVE  \/ answer \in {<<Relaying!Short("Ok")>>, <<Relaying!Short("Err")>>,
                          <<Relaying!Short("Infile")>>}
           \/ \E n \in 1..MaxColumns, end \in {"End", "Eof", "Err"} :
                 answer = Relaying!ResultSet(request.of, n, end)
<1>1. \/ answer \in {<<Relaying!Short("Ok")>>, <<Relaying!Short("Err")>>,
                     <<Relaying!Short("Infile")>>}
      \/ answer \in Relaying!ResultSets(request.of)
  BY DEF Relaying!Answers
<1>2. ASSUME answer \in Relaying!ResultSets(request.of)
      PROVE  \E n \in 1..MaxColumns, end \in {"End", "Eof", "Err"} :
                answer = Relaying!ResultSet(request.of, n, end)
  <2>1. \E n \in 1..MaxColumns, end \in Relaying!EndOfRows :
           answer = Relaying!ResultSet(request.of, n, end)
    BY <1>2 DEF Relaying!ResultSets
  <2> QED BY <2>1, EndsOfRows
<1> QED BY <1>1, <1>2

\* Nothing else is answered with rows.
LEMMA NoRows ==
    ASSUME NEW request \in Forwarded, NEW answer \in Relaying!Answers(request),
           request.kind # "Query", deprecateEof \in BOOLEAN
    PROVE  \A i \in DOMAIN answer : answer[i].kind \notin {"Row", "HugeRow"}
<1>1. \A kind : Relaying!Short(kind).kind = kind
  BY DEF Relaying!Short, Relaying!Answer
<1>2. CASE request.kind = "FieldList"
  <2>1. \/ answer = <<Relaying!Short("Err")>>
        \/ \E n \in 1..MaxColumns, end \in Relaying!EndOfRows \ {"Err"} :
              answer = Relaying!Definitions(request.of, n) \o <<Relaying!Short(end)>>
    BY <1>2 DEF Relaying!Answers
  <2>2. CASE answer = <<Relaying!Short("Err")>>
    BY <1>1, <2>2
  <2>3. ASSUME NEW n \in 1..MaxColumns, NEW end \in Relaying!EndOfRows \ {"Err"},
               answer = Relaying!Definitions(request.of, n) \o <<Relaying!Short(end)>>,
               NEW i \in DOMAIN answer
        PROVE  answer[i].kind \notin {"Row", "HugeRow"}
    <3> DEFINE cols == Relaying!Definitions(request.of, n)
               fin  == <<Relaying!Short(end)>>
    <3>1. n \in Nat /\ end \in {"End", "Eof"}
      BY EndsOfRows, MySqlCodecAssumption
    <3>2. cols = [k \in 1..n |-> Relaying!Answer("Column", request.of, n)]
      BY DEF Relaying!Definitions
    <3>3. cols \in Seq(Returned) /\ Len(cols) = n
      <4>1. Relaying!Answer("Column", request.of, n) \in Returned
        BY <1>2, ReturnedShape DEF Forwarded, Sent
      <4> QED BY <3>1, <3>2, <4>1
    <3>4. fin \in Seq(Returned) /\ Len(fin) = 1 /\ fin[1] = Relaying!Short(end)
      BY <3>1, ReturnedShape
    <3> HIDE DEF cols, fin
    <3>5. answer = cols \o fin
      BY <2>3 DEF cols, fin
    <3>6. Len(answer) = n + 1 /\ DOMAIN answer = 1..(n + 1)
          /\ answer[i] = IF i <= n THEN cols[i] ELSE fin[i - n]
      <4>1. /\ answer \in Seq(Returned) /\ Len(answer) = n + 1
            /\ \A k \in 1..(n + 1) : answer[k] = IF k <= n THEN cols[k] ELSE fin[k - n]
        <5>1. /\ cols \o fin \in Seq(Returned) /\ Len(cols \o fin) = Len(cols) + Len(fin)
              /\ \A k \in 1..(Len(cols) + Len(fin)) :
                    (cols \o fin)[k] = IF k <= Len(cols) THEN cols[k] ELSE fin[k - Len(cols)]
          BY <3>3, <3>4, ConcatProperties
        <5> QED BY <3>3, <3>4, <3>5, <5>1
      <4>2. DOMAIN answer = 1..(n + 1)
        BY <4>1, LenProperties
      <4>3. i \in 1..(n + 1)
        BY <2>3, <4>2
      <4> QED BY <4>1, <4>2, <4>3
    <3>7. CASE i <= n
      <4>1. i \in 1..n
        BY <3>1, <3>6, <3>7
      <4>2. answer[i] = Relaying!Answer("Column", request.of, n)
        BY <3>2, <3>6, <4>1
      <4> QED BY <4>2 DEF Relaying!Answer
    <3>8. CASE ~(i <= n)
      <4>1. i - n = 1
        BY <3>1, <3>6, <3>8
      <4>2. answer[i] = Relaying!Short(end)
        BY <3>4, <3>6, <3>8, <4>1
      <4> QED BY <1>1, <3>1, <4>2
    <3> QED BY <3>7, <3>8
  <2> QED BY <2>1, <2>2, <2>3
<1>3. CASE request.kind = "Data"
  BY <1>3 DEF Relaying!Answers
<1>4. CASE request.kind \in {"Ping", "Done", "Stats", "ChangeUser"}
  <2>1. answer \in {<<Relaying!Short("Ok")>>, <<Relaying!Short("Err")>>,
                    <<Relaying!Short("Text")>>, <<Relaying!Short("Switch")>>}
    BY <1>4 DEF Relaying!Answers
  <2> QED BY <1>1, <2>1
<1>5. CASE request.kind = "Reply"
  <2>1. \/ answer \in {<<Relaying!Short("Ok")>>, <<Relaying!Short("Err")>>,
                       <<Relaying!Short("Full")>>}
        \/ answer = <<Relaying!Short("Fast"), Relaying!Short("Ok")>>
    BY <1>5 DEF Relaying!Answers
  <2>2. CASE answer = <<Relaying!Short("Fast"), Relaying!Short("Ok")>>
    <3>1. DOMAIN answer = {1, 2} /\ answer[1].kind = "Fast" /\ answer[2].kind = "Ok"
      BY <1>1, <2>2
    <3> QED BY <3>1
  <2> QED BY <1>1, <2>1, <2>2
<1> QED BY <1>2, <1>3, <1>4, <1>5 DEF Forwarded, Sent, Issued

\* The server begins an answer where the decoder expects one.
LEMMA ServeAnswers ==
    ASSUME SessionTypes, CommandTurns, Answering, ~MultiResults, Relaying!Serve
    PROVE  Answering'
<1>1. /\ requests # <<>> /\ replies' \in Relaying!Answers(Head(requests))
      /\ UNCHANGED <<phase, cause, uCodec, deprecateEof, asked, columns, shown>>
  BY DEF Relaying!Serve
<1>2. requests \in Seq(Forwarded) /\ deprecateEof \in BOOLEAN
      /\ asked \in {"nothing", "Upload", "Prove", "Spoilt", "lost"} \cup Issued
  BY DEF SessionTypes
<1>3. PICK request \in Forwarded : request = Head(requests) /\ request = requests[1]
                                   /\ 1 \in DOMAIN requests
  BY <1>1, <1>2, FirstOfOne
<1>4. /\ For(request.kind) /\ uCodec = At("Command")
      /\ request.kind = "Query" => columns = <<>>
  BY <1>3 DEF CommandTurns
<1>5. PICK answer \in Relaying!Answers(request) : replies' = answer
  BY <1>1, <1>3
<1>6. \A kind : Relaying!Short(kind).kind = kind
  BY DEF Relaying!Short, Relaying!Answer
<1>7. ASSUME NEW kinds, NEW kind \in kinds, answer = <<Relaying!Short(kind)>>
      PROVE  InShort(kinds)'
  <2>1. /\ Len(replies') = 1 /\ DOMAIN replies' = {1}
        /\ replies'[1] = Relaying!Short(kind)
    BY <1>5, <1>7
  <2> QED BY <1>1, <1>4, <1>6, <2>1 DEF InShort
<1>8. ASSUME NEW s \in Stmts, NEW n \in 1..MaxColumns, NEW end \in {"End", "Eof", "Err"},
             answer = Relaying!ResultSet(s, n, end), columns = <<>>
      PROVE  InResult(s, n, end)'
  <2>1. /\ replies' \in Seq(Returned) /\ Len(replies') = Whole(n)
        /\ \A i \in 1..Whole(n) : replies'[i] = Due(s, n, end, Whole(n) - i)
    BY <1>2, <1>5, <1>8, ResultSetShape
  <2>2. DOMAIN replies' = 1..Whole(n)
    BY <2>1
  <2>3. n \in Nat /\ n >= 1 /\ Eofs \in {0, 1} /\ Whole(n) = n + Eofs + 4
    BY MySqlCodecAssumption DEF Eofs, Whole
  <2>4. Reading(n, Whole(n)) = At("Command") /\ Known(n, Whole(n)) = 0
    <3>1. ~(Whole(n) <= 3) /\ ~(Whole(n) = 4) /\ ~(Whole(n) <= Eofs + 3)
      BY <2>3
    <3> QED BY <3>1 DEF Reading, Known
  <2>5. columns' = <<>> /\ Len(columns') = 0 /\ DOMAIN columns' = {}
    BY <1>1, <1>8
  <2>6. Len(replies') \in 1..Whole(n)
    BY <2>1, <2>3
  <2>7. \A i \in DOMAIN replies' : replies'[i] = Due(s, n, end, Len(replies') - i)
    BY <2>1, <2>2
  <2>8. uCodec' = Reading(n, Len(replies')) /\ Len(columns') = Known(n, Len(replies'))
    BY <1>1, <1>4, <2>1, <2>4, <2>5
  <2>9. \A i \in DOMAIN columns' : columns'[i] = s
    BY <2>5
  <2> QED BY <1>1, <2>6, <2>7, <2>8, <2>9, RestOfResult
<1>9. asked = "Query" =>
         \/ InShort({"Ok", "Err", "Infile"})'
         \/ \E s \in Stmts, n \in 1..MaxColumns, end \in {"End", "Eof", "Err"} :
               InResult(s, n, end)'
  <2> SUFFICES ASSUME asked = "Query"
               PROVE  \/ InShort({"Ok", "Err", "Infile"})'
                      \/ \E s \in Stmts, n \in 1..MaxColumns, end \in {"End", "Eof", "Err"} :
                            InResult(s, n, end)'
    OBVIOUS
  <2>1. request.kind \in {"Query", "Done"}
    BY <1>4 DEF For
  <2>2. CASE request.kind = "Done"
    <3>1. answer \in {<<Relaying!Short("Ok")>>, <<Relaying!Short("Err")>>}
      BY <2>2 DEF Relaying!Answers
    <3> QED BY <1>7, <3>1
  <2>3. CASE request.kind = "Query"
    <3>1. request.of \in Stmts /\ columns = <<>>
      BY <1>4, <2>3 DEF Forwarded, Sent
    <3>2. CASE answer \in {<<Relaying!Short("Ok")>>, <<Relaying!Short("Err")>>,
                           <<Relaying!Short("Infile")>>}
      BY <1>7, <3>2
    <3>3. CASE \E n \in 1..MaxColumns, end \in {"End", "Eof", "Err"} :
                  answer = Relaying!ResultSet(request.of, n, end)
      BY <1>8, <3>1, <3>3
    <3> QED BY <1>2, <2>3, <3>2, <3>3, AnswersToQuery
  <2> QED BY <2>1, <2>2, <2>3
<1>10. asked \in {"Ping", "Stats", "lost"} => InShort({"Ok", "Err", "Text"})'
  <2> SUFFICES ASSUME asked \in {"Ping", "Stats", "lost"} PROVE InShort({"Ok", "Err", "Text"})'
    OBVIOUS
  <2>1. request.kind \in {"Ping", "Stats", "Done"}
    BY <1>4 DEF For
  <2>2. answer \in {<<Relaying!Short("Ok")>>, <<Relaying!Short("Err")>>,
                    <<Relaying!Short("Text")>>}
    BY <2>1 DEF Relaying!Answers
  <2> QED BY <1>7, <2>2
<1>11. asked # "Query" =>
          \A i \in DOMAIN replies' : replies'[i].kind \notin {"Row", "HugeRow"}
  <2>1. asked # "Query" => request.kind # "Query"
    BY <1>4 DEF For
  <2> QED BY <1>2, <1>5, <2>1, NoRows
<1>12. Seen' /\ (cause' = "protocol" => asked' \in {"ChangeUser", "FieldList"})
  BY <1>1 DEF Answering, Seen, RowsOwnColumns, Relaying!RowsOwnColumns
<1> QED BY <1>1, <1>9, <1>10, <1>11, <1>12 DEF Answering

\* The proxy reads the rest of the answer for what it is, and records and shows
\* accordingly.
LEMMA ReplyAnswers ==
    ASSUME SessionTypes, Readable, CommandTurns, Answering, Relaying!ForwardReply
    PROVE  Answering'
<1> DEFINE packet == Head(replies)
           read   == Decode(uCodec, packet, deprecateEof)
<1>1. /\ phase = "command" /\ replies # <<>> /\ replies' = Tail(replies)
      /\ deprecateEof' = deprecateEof
      /\ \/ /\ read.kind # "Malformed"
            /\ uCodec' = read.state
            /\ shown' = Relaying!Shown(packet, read.kind)
            /\ columns' = IF read.kind = "Column" THEN Append(columns, packet.of) ELSE columns
            /\ asked' = IF replies' # <<>> \/ asked = "lost" THEN asked ELSE Relaying!AskedBy(packet)
            /\ cause' = cause
         \/ /\ read.kind = "Malformed"
            /\ cause' = "protocol" /\ UNCHANGED <<uCodec, shown, columns, asked>>
  BY SameCodec DEF Relaying!ForwardReply, Relaying!Close
<1>2. /\ replies \in Seq(Returned) /\ columns \in Seq(Stmts) /\ deprecateEof \in BOOLEAN
      /\ cause = "none"
  BY <1>1 DEF SessionTypes, Readable, Unproven, Negotiating, Unhurried
<1>3. /\ asked \in {"Query", "FieldList", "Ping", "Stats", "ChangeUser", "lost"}
      /\ Seen
  BY <1>1 DEF CommandTurns, Answering
<1>4. /\ packet \in Returned /\ packet = replies[1] /\ 1 \in DOMAIN replies
      /\ DOMAIN replies = 1..Len(replies) /\ Len(replies) \in Nat \ {0}
      /\ Len(replies') = Len(replies) - 1 /\ replies' \in Seq(Returned)
      /\ \A i \in DOMAIN replies' : i \in Nat /\ i + 1 \in DOMAIN replies
                                    /\ replies'[i] = replies[i + 1]
      /\ replies' # <<>> => Len(replies) > 1
      /\ Len(replies) = 1 => replies' = <<>>
  BY <1>1, <1>2, TailAt, FirstOfOne
<1>5. Relaying!AskedBy(packet) \in {"nothing", "Upload", "Prove"}
  BY DEF Relaying!AskedBy
<1> HIDE DEF packet, read
<1>6. ASSUME packet.kind \notin {"Row", "HugeRow"}
      PROVE  Seen'
  BY <1>1, <1>3, <1>4, <1>6 DEF Returned, Seen, RowsOwnColumns, Relaying!RowsOwnColumns,
                                Relaying!Shown
<1>7. ASSUME replies' = <<>>, read.kind # "Malformed", Seen'
      PROVE  Answering'
  <2>1. DOMAIN replies' = {} /\ cause' = "none"
    BY <1>1, <1>2, <1>7
  <2> QED BY <1>7, <2>1 DEF Answering
<1>8. CASE asked = "Query"
  <2>1. CASE InShort({"Ok", "Err", "Infile"})
    <3>1. packet.kind \in {"Ok", "Err", "Infile"} /\ uCodec = At("Command")
      BY <1>4, <2>1 DEF InShort
    <3>2. read.kind # "Malformed"
      BY <3>1, ReadsFirst DEF read
    <3>3. replies' = <<>>
      BY <1>4, <2>1 DEF InShort
    <3> QED BY <1>6, <1>7, <3>1, <3>2, <3>3
  <2>2. ASSUME NEW s \in Stmts, NEW n \in 1..MaxColumns, NEW end \in {"End", "Eof", "Err"},
               InResult(s, n, end)
        PROVE  Answering'
    <3>1. PICK left \in 1..Whole(n) : left = Len(replies)
      BY <2>2 DEF InResult
    <3>2. /\ packet = Due(s, n, end, left - 1) /\ uCodec = Reading(n, left)
          /\ Len(columns) = Known(n, left)
          /\ \A i \in DOMAIN columns : columns[i] = s
      BY <1>4, <2>2, <3>1 DEF InResult
    <3>3. /\ read.kind # "Malformed"
          /\ left > 1 => /\ read.state = Reading(n, left - 1)
                         /\ Known(n, left - 1) =
                              Known(n, left) + (IF read.kind = "Column" THEN 1 ELSE 0)
          /\ read.kind = "Column" => left > 1 /\ packet.of = s
          /\ packet.kind \in {"Row", "HugeRow"} =>
                read.kind = "Row" /\ packet.n = n /\ packet.of = s /\ Known(n, left) = n
      BY <1>2, <3>2, ReadsResult DEF read
    <3>4. /\ uCodec' = read.state /\ shown' = Relaying!Shown(packet, read.kind)
          /\ columns' = IF read.kind = "Column" THEN Append(columns, s) ELSE columns
          /\ replies' # <<>> => asked' = asked
          /\ cause' = "none"
      BY <1>1, <1>2, <3>3
    <3>5. n \in Nat /\ left \in Nat /\ left >= 1 /\ Whole(n) \in Nat /\ left <= Whole(n)
      <4>1. n \in Nat /\ Eofs \in {0, 1}
        BY MySqlCodecAssumption DEF Eofs
      <4> QED BY <4>1, <1>4, <3>1 DEF Whole
    <3>6. Seen'
      <4>1. CASE packet.kind \in {"Row", "HugeRow"}
        <5>1. /\ shown'.packet = packet /\ shown'.readAs = "Row" /\ shown'.columns = columns
          BY <3>3, <3>4, <4>1 DEF Relaying!Shown
        <5>2. Len(columns) = n /\ packet.n = n /\ packet.of = s
          BY <3>2, <3>3, <4>1
        <5>3. DOMAIN columns = 1..n
          BY <1>2, <5>2
        <5>4. \A i \in 1..n : columns[i] = s
          BY <3>2, <5>3
        <5> QED BY <3>5, <4>1, <5>1, <5>2, <5>4 DEF Seen, RowsOwnColumns,
                                                    Relaying!RowsOwnColumns
      <4> QED BY <1>6, <4>1
    <3>7. CASE left = 1
      BY <1>4, <1>7, <3>1, <3>3, <3>6, <3>7
    <3>8. CASE left > 1
      <4>1. Len(replies') = left - 1 /\ left - 1 \in 1..Whole(n) /\ replies' # <<>>
        <5>1. Len(replies') = left - 1 /\ left - 1 \in 1..Whole(n)
          BY <1>4, <3>1, <3>5, <3>8
        <5>2. Len(replies') # 0
          BY <3>5, <3>8, <5>1
        <5> QED BY <5>1, <5>2
      <4>2. \A i \in DOMAIN replies' : replies'[i] = Due(s, n, end, Len(replies') - i)
        <5> SUFFICES ASSUME NEW i \in DOMAIN replies'
                     PROVE  replies'[i] = Due(s, n, end, Len(replies') - i)
          OBVIOUS
        <5>1. i \in Nat /\ replies'[i] = Due(s, n, end, left - (i + 1))
          BY <1>4, <2>2, <3>1 DEF InResult
        <5>2. left - (i + 1) = (left - 1) - i
          BY <3>5, <5>1
        <5> QED BY <4>1, <5>1, <5>2
      <4>3. uCodec' = Reading(n, left - 1)
        BY <3>3, <3>4, <3>8
      <4>4. CASE read.kind = "Column"
        <5>1. columns' = Append(columns, s) /\ Known(n, left - 1) = Known(n, left) + 1
          BY <3>3, <3>4, <3>8, <4>4
        <5>2. /\ Len(columns') = Len(columns) + 1 /\ DOMAIN columns' = 1..(Len(columns) + 1)
              /\ columns'[Len(columns) + 1] = s
              /\ \A i \in 1..Len(columns) : columns'[i] = columns[i]
          BY <1>2, <5>1, AppendProperties
        <5>3. \A i \in DOMAIN columns' : columns'[i] = s
          <6> SUFFICES ASSUME NEW i \in DOMAIN columns' PROVE columns'[i] = s
            OBVIOUS
          <6>1. Len(columns) \in Nat /\ DOMAIN columns = 1..Len(columns)
            BY <1>2, LenProperties
          <6>2. i \in 1..Len(columns) \/ i = Len(columns) + 1
            BY <5>2, <6>1
          <6> QED BY <3>2, <5>2, <6>1, <6>2
        <5>4. Len(columns') = Known(n, left - 1)
          BY <3>2, <5>1, <5>2
        <5>5. InResult(s, n, end)'
          BY <1>1, <4>1, <4>2, <4>3, <5>3, <5>4, RestOfResult
        <5> QED BY <1>8, <3>4, <3>6, <4>1, <5>5 DEF Answering
      <4>5. CASE read.kind # "Column"
        <5>1. columns' = columns /\ Known(n, left - 1) = Known(n, left) + 0
          BY <3>3, <3>4, <3>8, <4>5
        <5>2. Len(columns) \in Nat
          BY <1>2
        <5>3. Len(columns') = Known(n, left - 1)
          BY <3>2, <5>1, <5>2
        <5>4. InResult(s, n, end)'
          BY <1>1, <3>2, <4>1, <4>2, <4>3, <5>1, <5>3, RestOfResult
        <5> QED BY <1>8, <3>4, <3>6, <4>1, <5>4 DEF Answering
      <4> QED BY <4>4, <4>5
    <3> QED BY <3>5, <3>7, <3>8
  <2> QED BY <1>1, <1>8, <2>1, <2>2 DEF Answering
<1>9. CASE asked # "Query"
  <2>1. \A i \in DOMAIN replies : replies[i].kind \notin {"Row", "HugeRow"}
    BY <1>9 DEF Answering
  <2>2. \A i \in DOMAIN replies' : replies'[i].kind \notin {"Row", "HugeRow"}
    BY <1>4, <2>1
  <2>3. Seen'
    BY <1>4, <1>6, <2>1
  <2>4. asked' # "Query"
    BY <1>1, <1>5, <1>9
  <2>5. ASSUME asked \in {"Ping", "Stats", "lost"}
        PROVE  Answering'
    <3>1. InShort({"Ok", "Err", "Text"})
      BY <1>1, <2>5 DEF Answering
    <3>2. read.kind # "Malformed"
      BY <3>1, ReadsFirst DEF read, InShort
    <3>3. replies' = <<>>
      BY <1>4, <3>1 DEF InShort
    <3> QED BY <1>7, <2>3, <3>2, <3>3
  <2>6. ASSUME asked \in {"FieldList", "ChangeUser"}
        PROVE  Answering'
    <3>1. replies' # <<>> => asked' \notin {"Ping", "Stats", "Query", "lost"}
      BY <1>1, <1>5, <2>6
    <3>2. cause' = "protocol" => asked' \in {"ChangeUser", "FieldList"}
      BY <1>1, <1>2, <2>6
    <3> QED BY <2>2, <2>3, <2>4, <3>1, <3>2 DEF Answering
  <2> QED BY <1>3, <1>9, <2>5, <2>6
<1> QED BY <1>8, <1>9

\* In the command phase, whoever moves.
LEMMA CommandAnswers ==
    ASSUME SessionTypes, Readable, CommandTurns, Answering, ~MultiResults, CommandStep
    PROVE  Answering'
<1>1. CASE Relaying!Issue \/ Relaying!InReturn
  <2>1. /\ phase = "command" /\ replies' = replies /\ cause' = cause /\ shown' = shown
        /\ replies = <<>>
    <3>1. /\ phase = "command" /\ replies' = replies /\ cause' = cause /\ shown' = shown
          /\ asked \in {"nothing", "Upload", "Prove", "Spoilt"}
      BY <1>1 DEF Relaying!Issue, Relaying!InReturn
    <3> QED BY <3>1 DEF CommandTurns
  <2>2. cause' = "none"
    BY <2>1 DEF Readable
  <2>3. DOMAIN replies' = {} /\ replies' = <<>>
    BY <2>1
  <2> QED BY <2>1, <2>2, <2>3 DEF Answering, Seen, RowsOwnColumns, Relaying!RowsOwnColumns
<1>2. CASE Relaying!RefuseBinary
  <2>1. /\ phase = "command" /\ replies' = replies /\ cause' = cause /\ replies = <<>>
        /\ shown' = Relaying!Shown(Relaying!Short("Refusal"), Head(commands).kind)
        /\ "Binary" \in Relaying!CommandReadAs(Head(commands))
    BY <1>2 DEF Relaying!RefuseBinary, CommandTurns
  <2>2. cause' = "none"
    BY <2>1 DEF Readable
  <2>3. DOMAIN replies' = {} /\ replies' = <<>>
    BY <2>1
  <2>4. shown'.packet.kind = "Refusal" /\ shown'.readAs = Head(commands).kind
    BY <2>1 DEF Relaying!Shown, Relaying!Short, Relaying!Answer
  <2>5. Head(commands).kind \in {"Prepare", "Reply", "Data"}
    BY <2>1 DEF Relaying!CommandReadAs
  <2> QED BY <2>1, <2>2, <2>3, <2>4, <2>5 DEF Answering, Seen, RowsOwnColumns,
                                              Relaying!RowsOwnColumns
<1>3. CASE Relaying!ForwardCommand
  <2>1. /\ phase = "command" /\ replies' = replies /\ cause' = cause /\ replies = <<>>
        /\ shown' = shown
    BY <1>3 DEF Relaying!ForwardCommand, Relaying!Forward, CommandTurns
  <2>2. cause' = "none"
    BY <2>1 DEF Readable
  <2>3. DOMAIN replies' = {} /\ replies' = <<>>
    BY <2>1
  <2> QED BY <2>1, <2>2, <2>3 DEF Answering, Seen, RowsOwnColumns, Relaying!RowsOwnColumns
<1>4. CASE Relaying!Serve
  BY <1>4, ServeAnswers
<1>5. CASE Relaying!ForwardReply
  BY <1>5, ReplyAnswers
<1>6. CASE Relaying!Stop
  <2>1. /\ cause' = "stopped"
        /\ UNCHANGED <<uCodec, deprecateEof, asked, replies, columns, shown>>
    BY <1>6 DEF Relaying!Stop, Relaying!Close
  <2> QED BY <2>1 DEF Answering, InShort, InResult, Due, Reading, Known, Whole, Eofs,
                      Seen, RowsOwnColumns, Relaying!RowsOwnColumns
<1> QED BY <1>1, <1>2, <1>3, <1>4, <1>5, <1>6
        DEF CommandStep, Relaying!RelayNext, Relaying!LoopStep

\* Before it, nothing is being answered.
LEMMA AuthAnswers ==
    ASSUME SessionTypes, Readable, CommandTurns, Answering, AuthNext, UNCHANGED relay
    PROVE  Answering'
<1>1. UNCHANGED <<deprecateEof, asked, commands, requests, replies, columns, shown>>
  BY DEF relay
<1>2. \/ phase' = phase /\ uCodec' = uCodec /\ cause' = cause
      \/ /\ phase \in Unproven
         /\ cause' \in {cause, "refused", "broken off", "rounds", "gave up"}
  BY DEF AuthNext, Greet, Serve, ClientStep, MeetsProxy, RespondsOverTls, Switches,
         SendsPassword,
         UsesKey, Waits, Learns, Unsent, ProxyStep, Greeting, UpgradeClient, Response,
         SwitchReply, Prove, Relay, RelayReply, UpstreamTls, TooManyRounds, AuthStepEnds, ServerGone,
         progress, codecs, Unproven, Negotiating, Unhurried, Verify, AskToSwitch,
         AuthenticateUpstream,
         CommandPhase, Fail, Close
<1>3. CASE phase' = phase /\ uCodec' = uCodec /\ cause' = cause
  BY <1>1, <1>3 DEF Answering, InShort, InResult, Due, Reading, Known, Whole, Eofs,
                    Seen, RowsOwnColumns, Relaying!RowsOwnColumns
<1>4. CASE /\ phase \in Unproven
           /\ cause' \in {cause, "refused", "broken off", "rounds", "gave up"}
  <2>1. asked = "nothing" /\ cause = "none"
    BY <1>4 DEF CommandTurns, Readable, Unproven, Negotiating, Unhurried
  <2>2. replies' = <<>> /\ cause' # "protocol"
    BY <1>1, <1>4, <2>1, NothingAsked
  <2>3. DOMAIN replies' = {}
    BY <2>2
  <2> QED BY <1>1, <2>2, <2>3 DEF Answering, Seen, RowsOwnColumns, Relaying!RowsOwnColumns
<1> QED BY <1>2, <1>3, <1>4

\* All that a session's answers depend on.
SessionInv == SessionTypes /\ Readable /\ CommandTurns

LEMMA InitSession == Init => SessionInv
<1> SUFFICES ASSUME Init PROVE Readable /\ CommandTurns
  BY InitTypes DEF SessionInv
<1>1. /\ phase = "greeting" /\ cause = "none" /\ asked = "nothing"
      /\ commands = <<>> /\ requests = <<>> /\ replies = <<>>
  BY DEF Init, AuthInit, Relaying!RelayInit
<1>2. DOMAIN commands = {} /\ DOMAIN requests = {} /\ Len(requests) = 0
  BY <1>1
<1> QED BY <1>1, <1>2 DEF Readable, Proving, CommandTurns

LEMMA NextSession ==
    AuthInv /\ AuthInv' /\ OrderInv /\ SessionInv /\ [Next]_vars => SessionInv'
<1> SUFFICES ASSUME AuthInv, AuthInv', OrderInv, SessionTypes, Readable, CommandTurns,
                    [Next]_vars
             PROVE  SessionTypes' /\ Readable' /\ CommandTurns'
  BY DEF SessionInv
<1>1. CASE AuthStep
  BY <1>1, AuthKeepsTypes, AuthReadable, AuthTurns DEF AuthStep
<1>2. CASE CommandStep
  BY <1>2, CommandKeepsTypes, CommandReadable, CommandsInTurn
<1>3. CASE UNCHANGED vars
  <2>1. UNCHANGED <<authVars, relay, progress, codecs>>
    BY <1>3 DEF vars, authVars
  <2>2. SessionTypes'
    BY <2>1 DEF authVars, relay, progress, codecs, SessionTypes
  <2>3. Readable'
    BY <2>1 DEF authVars, relay, progress, codecs, Readable, Proving
  <2>4. CommandTurns'
    BY <2>1 DEF authVars, relay, progress, codecs, CommandTurns, For
  <2> QED BY <2>2, <2>3, <2>4
<1> QED BY <1>1, <1>2, <1>3 DEF Next, Ended

LEMMA InitAnswers == Init => Answering
<1> SUFFICES ASSUME Init PROVE Answering
  OBVIOUS
<1>1. cause = "none" /\ replies = <<>> /\ shown = Relaying!Shown(Relaying!Short("Ok"), "Ok")
  BY DEF Init, AuthInit, Relaying!RelayInit
<1>2. DOMAIN replies = {}
  BY <1>1
<1>3. shown.packet.kind = "Ok"
  BY <1>1 DEF Relaying!Shown, Relaying!Short, Relaying!Answer
<1> QED BY <1>1, <1>2, <1>3 DEF Answering, Seen, RowsOwnColumns, Relaying!RowsOwnColumns

LEMMA NextAnswers == ~MultiResults /\ SessionInv /\ Answering /\ [Next]_vars => Answering'
<1> SUFFICES ASSUME ~MultiResults, SessionTypes, Readable, CommandTurns, Answering, [Next]_vars
             PROVE  Answering'
  BY DEF SessionInv
<1>1. CASE AuthStep     BY <1>1, AuthAnswers DEF AuthStep
<1>2. CASE CommandStep  BY <1>2, CommandAnswers
<1>3. CASE UNCHANGED vars
  BY <1>3 DEF vars, authVars, relay, progress, codecs, Answering, InShort, InResult, Due,
              Reading, Known, Whole, Eofs, Seen, RowsOwnColumns, Relaying!RowsOwnColumns
<1> QED BY <1>1, <1>2, <1>3 DEF Next, Ended

LEMMA SessionAnswers ==
    ASSUME ~MultiResults
    PROVE  Spec => [](SessionInv /\ Answering)
<1>1. Init => AuthInv /\ OrderInv /\ SessionInv /\ Answering
  BY InitKeeps, InitInOrder, InitSession, InitAnswers
<1>2. /\ AuthInv /\ OrderInv /\ SessionInv /\ Answering
      /\ [Next]_vars
      => (AuthInv /\ OrderInv /\ SessionInv /\ Answering)'
  BY NextKeeps, NextInOrder, NextSession, NextAnswers
<1> QED BY <1>1, <1>2, PTL DEF Spec

\* "so a desynced response stream cannot persist" (set_command_state): for any statements,
\* number of columns and order of commands, every row that reaches the client was read as
\* a row and masked by its own columns, as long as a COM_QUERY brings one result set.
THEOREM RowsAreMaskedByTheirOwn ==
    ASSUME ~MultiResults
    PROVE  Spec => []RowsOwnColumns
<1>1. Answering => RowsOwnColumns
  BY DEF Answering, Seen
<1> QED BY <1>1, SessionAnswers, PTL

\* "a scramble whose first byte happens to be 0x03 would be decoded as COM_QUERY"
\* (MySqlState): between legal peers, a session stumbles in three places and no other.  A
\* passthrough may be broken off in authentication, which a terminated session never is;
\* the answer to a COM_CHANGE_USER or COM_FIELD_LIST may be taken for malformed; and a
\* piece of a file or of a proof that begins like a prepared statement is refused.  This
\* holds as long as a COM_QUERY brings one result set.
THEOREM StumblesNowhereElse ==
    ASSUME ~MultiResults
    PROVE  Spec => []StumblesOnlyThere
<1>1. SessionInv /\ Answering => StumblesOnlyThere
  BY DEF SessionInv, Readable, Answering, Seen, StumblesOnlyThere
<1> QED BY <1>1, SessionAnswers, PTL
=============================================================================
