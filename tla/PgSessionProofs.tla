--------------------------- MODULE PgSessionProofs ---------------------------
(***************************************************************************)
(* What holds of the start of a PostgreSQL session for any number of       *)
(* requests for TLS and of edits of upstream_tls, and whatever is relayed  *)
(* afterwards.                                                             *)
(***************************************************************************)
EXTENDS PgSession, TLAPS

-----------------------------------------------------------------------------
(* The inductive invariant *)

Starting == at \notin {"open", "closed"}

\* The client sends one message and waits: where it is with each of them.
SentAt == [ssl |-> "asked", gss |-> "askedGss", startup |-> "starting",
           cancel |-> "cancelling", hello |-> "shaking", password |-> "proving"]

Is(where) == peer.at \in {where, "gone"}

OneMessage ==
    /\ wire # <<>> => \E kind \in DOMAIN SentAt : wire = <<kind>> /\ Is(SentAt[kind])
    /\ wire = <<>> => arrived = Nothing
    /\ wire = <<"ssl">> => arrived # 2
    /\ wire # <<>> => peer.first # "none"
    /\ peer.at = "fresh" => peer.first = "none"
    /\ peer.first = "none" => peer.at \in {"fresh", "gone"}
    /\ peer.first = "none" /\ at # "peeking" => peer.at = "gone"

\* Until the client's startup message has gone on, the server has only been asked for
\* TLS, and the client has only been answered its own request for it.
BeforeStartup ==
    /\ forwarded = <<>>
    /\ server \in {"listening", "gone"}
    /\ \/ up = <<>> /\ back = <<>>
       \/ at = "asking" /\ up = <<"ssl">> /\ back = <<>>
       \/ at = "asking" /\ up = <<>> /\ \E byte \in {"S", "N", "E"} : back = <<byte>>
    /\ \/ down = <<>>
       \/ /\ down \in {<<"S">>, <<"N">>}
          /\ at # "peeking" /\ wire = <<>> /\ Is("asked")

\* From then on one message is under way, between two who wait for it.
OnlyUp(m)   == up = <<m>> /\ wire = <<>> /\ back = <<>> /\ down = <<>>
OnlyWire(m) == up = <<>> /\ wire = <<m>> /\ back = <<>> /\ down = <<>>
OnlyBack(m) == up = <<>> /\ wire = <<>> /\ back = <<m>> /\ down = <<>>
OnlyDown(m) == up = <<>> /\ wire = <<>> /\ back = <<>> /\ down = <<m>>
NoMessage == up = <<>> /\ wire = <<>> /\ back = <<>> /\ down = <<>>
Reads(where) == server \in {where, "gone"}

AfterStartup ==
    /\ at = "relaying"
    /\ \/ OnlyUp("startup")    /\ Is("starting")   /\ Reads("listening")
       \/ OnlyUp("long gss")   /\ Is("askedGss")   /\ Reads("listening")
       \/ OnlyUp("keyless")    /\ Is("cancelling") /\ Reads("listening")
       \/ OnlyBack("N")        /\ Is("askedGss")   /\ Reads("listening")
       \/ OnlyBack("auth")     /\ Is("starting")   /\ Reads("asked")
       \/ OnlyDown("auth")     /\ Is("starting")   /\ Reads("asked")
       \/ OnlyWire("password") /\ Is("proving")    /\ Reads("asked")
       \/ OnlyUp("password")   /\ Is("proving")    /\ Reads("asked")
       \/ NoMessage            /\ Is("proving")    /\ server = "ready"
       \/ /\ OnlyBack("fatal") \/ OnlyDown("fatal") \/ NoMessage
          /\ peer.at \in {"starting", "proving", "cancelling", "gone"}
          /\ server = "gone"

InTurn == IF isStartup THEN BeforeStartup ELSE AfterStartup

\* A client that asked first is in its handshake until its leg is encrypted.
AskedFirst == acceptor /\ peer.first = "ssl"
ClientLeg ==
    /\ AskedFirst /\ at = "peeking" => wire = <<"ssl">>
    /\ AskedFirst /\ at # "peeking" =>
           /\ peer.at # "denied" /\ down # <<"N">> /\ wire # <<"ssl">>
           /\ at = "shaking" \/ legs.client
    /\ AskedFirst => \A i \in DOMAIN forwarded : forwarded[i].client
    /\ at = "peeking" => isStartup

\* The loop runs over an encrypted upstream leg, or upstream_tls has been off.
ServerLeg ==
    /\ ~upstreamTls => wasOptional
    /\ at = "relaying" => legs.server \/ wasOptional
    /\ RequiredIsSecured

Legs == [client : BOOLEAN, server : BOOLEAN]
Peers == [at : {"fresh", "asked", "askedGss", "denied", "shaking", "secured",
                "starting", "cancelling", "proving", "gone"},
          first : {"none", "ssl", "gss", "startup", "cancel"}, asks : Nat]
StartShapes ==
    /\ peer \in Peers
    /\ legs \in Legs
    /\ arrived \in Nothing..Whole
    /\ forwarded \in Seq(Legs)
    /\ {acceptor, upstreamTls, wasOptional, isStartup} \subseteq BOOLEAN

StartInv ==
    IF Starting THEN StartShapes /\ OneMessage /\ InTurn /\ ClientLeg /\ ServerLeg
                ELSE OpensAsAsked

-----------------------------------------------------------------------------
(* Lemmas *)

\* A channel with one message.
LEMMA OneElement ==
    ASSUME NEW m
    PROVE  /\ Append(<<>>, m) = <<m>> /\ Head(<<m>>) = m /\ Tail(<<m>>) = <<>>
           /\ <<m>> # <<>> /\ <<>> \o <<m>> = <<m>> /\ <<>> \o <<>> = <<>>
  OBVIOUS

\* Two such channels hold the same message.
LEMMA OneSame ==
    ASSUME NEW m, NEW n, <<m>> = <<n>>
    PROVE  m = n
  OBVIOUS

\* What one more message leaves of the others.
LEMMA Appended ==
    ASSUME NEW S, NEW s \in Seq(S), NEW e \in S
    PROVE  /\ Append(s, e) \in Seq(S)
           /\ \A i \in DOMAIN Append(s, e) :
                 Append(s, e)[i] = e \/ (i \in DOMAIN s /\ Append(s, e)[i] = s[i])
  OBVIOUS

\* A message on the wire is the only one, and its client waits for the answer.
LEMMA OnTheWire ==
    ASSUME OneMessage, wire # <<>>
    PROVE  \E kind \in DOMAIN SentAt :
              /\ wire = <<kind>> /\ Head(wire) = kind /\ Tail(wire) = <<>>
              /\ Is(SentAt[kind])
  BY OneElement DEF OneMessage

\* To send something the client need not wait for anything.
LEMMA Idle ==
    ASSUME StartInv, Starting, peer.at \in {"fresh", "denied", "secured"}
    PROVE  /\ wire = <<>> /\ arrived = Nothing /\ down = <<>>
           /\ isStartup /\ BeforeStartup
           /\ ~(AskedFirst /\ at = "peeking")
<1>1. wire = <<>>
  BY DEF StartInv, OneMessage, Is, SentAt
<1>2. isStartup
  BY DEF StartInv, InTurn, AfterStartup, Is
<1>3. BeforeStartup
  BY <1>2 DEF StartInv, InTurn
<1>4. down = <<>>
  BY <1>3 DEF BeforeStartup, Is
<1> QED BY <1>1, <1>2, <1>3, <1>4, OneElement DEF StartInv, OneMessage, ClientLeg

\* To the client one message is under way at most.
LEMMA DownOne ==
    ASSUME StartInv, Starting
    PROVE  \/ down = <<>>
           \/ \E m \in {"S", "N", "auth", "fatal"} : down = <<m>>
  BY DEF StartInv, InTurn, BeforeStartup, AfterStartup, OnlyUp, OnlyWire, OnlyBack,
         OnlyDown, NoMessage

\* The invariant says what is claimed.
LEMMA InvOpens ==
    ASSUME StartInv
    PROVE  OpensAsAsked
<1> SUFFICES ASSUME Starting PROVE OpensAsAsked
  BY DEF StartInv
<1> USE DEF StartInv
<1>1. \/ down = <<>>
      \/ \E m \in {"S", "N", "auth", "fatal"} : down = <<m>>
  BY DownOne
<1>2. AskedIsSecured
  <2> SUFFICES ASSUME AskedFirst
               PROVE  /\ peer.at # "denied" /\ down # <<"N">>
                      /\ \A i \in DOMAIN forwarded : forwarded[i].client
    BY <1>1 DEF AskedIsSecured, AskedFirst
  <2>1. CASE at = "peeking"
    <3>1. wire = <<"ssl">> /\ isStartup
      BY <2>1 DEF ClientLeg
    <3>2. peer.at \in {"asked", "gone"}
      BY <3>1, OneElement, OneSame DEF OneMessage, Is, SentAt
    <3>3. down = <<>>
      BY <2>1, <3>1 DEF InTurn, BeforeStartup
    <3> QED BY <3>2, <3>3 DEF ClientLeg
  <2>2. CASE at # "peeking"
    BY <2>2 DEF ClientLeg
  <2> QED BY <2>1, <2>2
<1>3. RequiredIsSecured
  BY DEF ServerLeg
<1>4. EndsUnderstand
  <2>1. peer.at # "confused"
    BY DEF StartShapes, Peers
  <2>2. CASE isStartup
    BY <2>1, <2>2, OneElement DEF InTurn, BeforeStartup, EndsUnderstand
  <2>3. CASE ~isStartup
    BY <2>1, <2>3, OneElement DEF InTurn, AfterStartup, OnlyUp, OnlyWire, OnlyBack,
       OnlyDown, NoMessage, Reads, EndsUnderstand
  <2> QED BY <2>2, <2>3 DEF StartShapes
<1> QED BY <1>2, <1>3, <1>4 DEF OpensAsAsked

-----------------------------------------------------------------------------
(* Every step keeps the invariant.  One lemma for each, a step for each part. *)

\* An edit of upstream_tls is part of the history.
LEMMA ToggleStep ==
    ASSUME StartInv, Starting, Toggle
    PROVE  StartInv'
<1> USE OneElement, OneSame DEF StartInv, Toggle, policy, ends, channels
<1>1. Starting'
  BY DEF Starting
<1>2. StartShapes'
  BY DEF StartShapes
<1>3. OneMessage'
  BY DEF OneMessage, Is
<1>4. InTurn'
  BY DEF InTurn, BeforeStartup, AfterStartup, OnlyUp, OnlyWire, OnlyBack, OnlyDown,
     NoMessage, Reads, Is
<1>5. ClientLeg'
  BY DEF ClientLeg, AskedFirst
<1>6. ServerLeg'
  BY DEF ServerLeg, RequiredIsSecured
<1> QED BY <1>1, <1>2, <1>3, <1>4, <1>5, <1>6

\* A client that is waiting for nothing asks for TLS.
LEMMA AsksStep ==
    ASSUME StartInv, Starting, Asks
    PROVE  StartInv'
<1> USE OneElement, OneSame DEF StartInv, Asks, policy, ends, channels, Sends
<1>a. /\ wire = <<>> /\ arrived = Nothing /\ down = <<>> /\ isStartup /\ BeforeStartup
      /\ ~(AskedFirst /\ at = "peeking")
  BY Idle
<1>1. Starting'
  BY DEF Starting
<1>2. StartShapes'
  <2>1. peer' = [at |-> "asked", asks |-> peer.asks + 1,
                  first |-> IF peer.first = "none" THEN "ssl" ELSE peer.first]
    BY DEF StartShapes, Peers
  <2>2. peer.asks + 1 \in Nat /\ peer.first \in {"none", "ssl", "gss", "startup", "cancel"}
    BY DEF StartShapes, Peers
  <2>3. peer' \in Peers
    <3> HIDE DEF Asks
    <3>1. CASE peer.first = "none"
      BY <2>1, <2>2 DEF Peers
    <3>2. CASE peer.first # "none"
      BY <2>1, <2>2 DEF Peers
    <3> QED BY <3>1, <3>2
  <2> QED BY <2>3 DEF StartShapes
<1>3. OneMessage'
  BY <1>a DEF OneMessage, Is, SentAt, Nothing
<1>4. InTurn'
  BY <1>a DEF InTurn, BeforeStartup
<1>5. ClientLeg'
  BY <1>a DEF ClientLeg, AskedFirst, BeforeStartup, OneMessage
<1>6. ServerLeg'
  BY DEF ServerLeg, RequiredIsSecured
<1> QED BY <1>1, <1>2, <1>3, <1>4, <1>5, <1>6

\* It asks for GSSAPI.
LEMMA AsksGssStep ==
    ASSUME StartInv, Starting, AsksGss
    PROVE  StartInv'
<1> USE OneElement, OneSame DEF StartInv, AsksGss, policy, ends, channels, Sends
<1>a. /\ wire = <<>> /\ arrived = Nothing /\ down = <<>> /\ isStartup /\ BeforeStartup
      /\ ~(AskedFirst /\ at = "peeking")
  BY Idle
<1>1. Starting'
  BY DEF Starting
<1>2. StartShapes'
  BY DEF StartShapes, Peers
<1>3. OneMessage'
  BY <1>a DEF OneMessage, Is, SentAt
<1>4. InTurn'
  BY <1>a DEF InTurn, BeforeStartup
<1>5. ClientLeg'
  BY <1>a DEF ClientLeg, AskedFirst
<1>6. ServerLeg'
  BY DEF ServerLeg, RequiredIsSecured
<1> QED BY <1>1, <1>2, <1>3, <1>4, <1>5, <1>6

\* It starts up or asks to cancel.
LEMMA StartsStep ==
    ASSUME StartInv, Starting, Starts
    PROVE  StartInv'
<1> USE OneElement, OneSame DEF StartInv, Starts, policy, ends, channels, Sends
<1>a. /\ wire = <<>> /\ arrived = Nothing /\ down = <<>> /\ isStartup /\ BeforeStartup
      /\ ~(AskedFirst /\ at = "peeking")
  BY Idle
<1>b. /\ \/ wire' = <<"startup">> /\ peer'.at = "starting"
         \/ wire' = <<"cancel">> /\ peer'.at = "cancelling"
      /\ peer'.first # "none"
      /\ peer'.first = "ssl" => peer.first = "ssl"
  BY <1>a DEF StartShapes, Peers
<1>c. UNCHANGED <<policy, at, legs, isStartup, server, arrived, up, back, forwarded, down>>
  OBVIOUS
<1>2. StartShapes'
  <2>1. peer' \in Peers
    BY DEF StartShapes, Peers
  <2> QED BY <2>1 DEF StartShapes
<1> HIDE DEF Starts
<1>1. Starting'
  BY <1>c DEF Starting
<1>3. OneMessage'
  BY <1>b DEF OneMessage, Is, SentAt
<1>4. InTurn'
  BY <1>a, <1>c DEF InTurn, BeforeStartup
<1>5. ClientLeg'
  BY <1>a, <1>b, <1>c DEF ClientLeg, AskedFirst
<1>6. ServerLeg'
  BY <1>c DEF ServerLeg, RequiredIsSecured
<1> QED BY <1>1, <1>2, <1>3, <1>4, <1>5, <1>6

\* It hears what it has been waiting for and goes on.
LEMMA HearsStep ==
    ASSUME StartInv, Starting, Hears
    PROVE  StartInv'
<1> USE OneElement, OneSame DEF StartInv, Hears, policy, ends, channels, Sends, Expected
<1>a. /\ wire = <<>>
      /\ \/ /\ isStartup /\ BeforeStartup /\ at # "peeking" /\ peer.at = "asked"
            /\ \/ down = <<"S">> /\ wire' = <<"hello">> /\ peer'.at = "shaking"
               \/ down = <<"N">> /\ wire' = wire /\ peer'.at = "denied"
         \/ /\ ~isStartup /\ AfterStartup
            /\ \/ /\ OnlyDown("auth") /\ peer.at = "starting" /\ Reads("asked")
                  /\ wire' = <<"password">> /\ peer'.at = "proving"
               \/ /\ OnlyDown("fatal") /\ server = "gone" /\ peer.at # "fresh"
                  /\ wire' = wire /\ peer'.at = "gone"
  <2>1. CASE isStartup
    BY <2>1 DEF InTurn, BeforeStartup, Is, StartShapes, Peers
  <2>2. CASE ~isStartup
    BY <2>2 DEF InTurn, AfterStartup, OnlyUp, OnlyWire, OnlyBack, OnlyDown, NoMessage,
       Is, StartShapes, Peers
  <2> QED BY <2>1, <2>2
<1>b. down' = <<>>
  BY <1>a DEF OnlyDown
<1>c. peer'.first = peer.first /\ peer.first # "none"
  <2>1. peer.at \notin {"fresh", "gone"}
    BY <1>a
  <2>2. peer.first # "none"
    BY <2>1 DEF OneMessage
  <2> QED BY <2>2 DEF StartShapes, Peers
<1>d. UNCHANGED <<policy, at, legs, isStartup, server, arrived, up, back, forwarded>>
  OBVIOUS
<1>2. StartShapes'
  <2>1. peer' = [peer EXCEPT !.at = peer'.at]
    BY <1>c
  <2>2. peer' \in Peers
    BY <1>a, <2>1 DEF StartShapes, Peers
  <2> QED BY <2>2 DEF StartShapes
<1> HIDE DEF Hears
<1>1. Starting'
  BY <1>d DEF Starting
<1>3. OneMessage'
  BY <1>a, <1>c, <1>d DEF OneMessage, Is, SentAt
<1>4. InTurn'
  BY <1>a, <1>b, <1>d DEF InTurn, BeforeStartup, AfterStartup, OnlyWire, OnlyDown,
     NoMessage, Reads, Is
<1>5. ClientLeg'
  BY <1>a, <1>b, <1>c, <1>d DEF ClientLeg, AskedFirst
<1>6. ServerLeg'
  BY <1>d DEF ServerLeg, RequiredIsSecured
<1> QED BY <1>1, <1>2, <1>3, <1>4, <1>5, <1>6

\* It may leave at any point.
LEMMA LeavesStep ==
    ASSUME StartInv, Starting, Leaves
    PROVE  StartInv'
<1> USE OneElement, OneSame DEF StartInv, Leaves, policy, ends, channels
<1>1. Starting'
  BY DEF Starting
<1>2. StartShapes'
  BY DEF StartShapes, Peers
<1>3. OneMessage'
  BY DEF OneMessage, Is
<1>4. InTurn'
  BY DEF InTurn, BeforeStartup, AfterStartup, OnlyUp, OnlyWire, OnlyBack, OnlyDown,
     NoMessage, Reads, Is, StartShapes, Peers
<1>5. ClientLeg'
  BY DEF ClientLeg, AskedFirst
<1>6. ServerLeg'
  BY DEF ServerLeg, RequiredIsSecured
<1> QED BY <1>1, <1>2, <1>3, <1>4, <1>5, <1>6

\* The prelude accepts a request for TLS: the request was all there was.
LEMMA AcceptSslStep ==
    ASSUME StartInv, Starting, AcceptSsl
    PROVE  StartInv'
<1> USE OneElement, OneSame DEF StartInv, AcceptSsl, policy, ends, channels, Consume, Says,
        GoOn
<1>a. /\ isStartup /\ BeforeStartup /\ wire = <<"ssl">> /\ Is("asked") /\ down = <<>>
      /\ up = <<>> /\ back = <<>>
  BY OnTheWire DEF SentAt, ClientLeg, InTurn, BeforeStartup
<1>1. Starting'
  BY DEF Starting
<1>2. StartShapes'
  BY DEF StartShapes, Nothing
<1>3. OneMessage'
  BY DEF OneMessage
<1>4. InTurn'
  BY <1>a DEF InTurn, BeforeStartup, Is
<1>5. ClientLeg'
  BY <1>a DEF ClientLeg, AskedFirst, Is
<1>6. ServerLeg'
  BY DEF ServerLeg, RequiredIsSecured
<1> QED BY <1>1, <1>2, <1>3, <1>4, <1>5, <1>6

\* It denies one only without an acceptor, when there is no leg to protect.
LEMMA DenySslStep ==
    ASSUME StartInv, Starting, DenySsl
    PROVE  StartInv'
<1> USE OneElement, OneSame DEF StartInv, DenySsl, policy, ends, channels, Consume, Says,
        GoOn
<1>a. /\ isStartup /\ BeforeStartup /\ wire = <<"ssl">> /\ Is("asked") /\ down = <<>>
      /\ up = <<>> /\ back = <<>>
  BY OnTheWire DEF SentAt, ClientLeg, InTurn, BeforeStartup
<1>1. Starting'
  BY DEF Starting
<1>2. StartShapes'
  BY DEF StartShapes, Nothing
<1>3. OneMessage'
  BY DEF OneMessage
<1>4. InTurn'
  BY <1>a DEF InTurn, BeforeStartup, Is
<1>5. ClientLeg'
  BY DEF ClientLeg, AskedFirst
<1>6. ServerLeg'
  BY DEF ServerLeg, RequiredIsSecured
<1> QED BY <1>1, <1>2, <1>3, <1>4, <1>5, <1>6

\* It goes on without TLS only when the client has asked for something else: a request
\* that has arrived in part is waited for.
LEMMA NoSslStep ==
    ASSUME StartInv, Starting, NoSsl
    PROVE  StartInv'
<1> USE OneElement, OneSame DEF StartInv, NoSsl, policy, ends, channels, GoOn, PreludeRead,
        AskedTls
<1>a. ~AskedFirst /\ isStartup
  BY DEF ClientLeg, OneMessage, StartShapes, Whole
<1>1. Starting'
  BY DEF Starting
<1>2. StartShapes'
  BY DEF StartShapes
<1>3. OneMessage'
  BY DEF OneMessage, Is, Nothing
<1>4. InTurn'
  BY <1>a DEF InTurn, BeforeStartup
<1>5. ClientLeg'
  BY <1>a DEF ClientLeg, AskedFirst
<1>6. ServerLeg'
  BY DEF ServerLeg, RequiredIsSecured
<1> QED BY <1>1, <1>2, <1>3, <1>4, <1>5, <1>6

\* The handshake encrypts the client's leg.
LEMMA SecureStep ==
    ASSUME StartInv, Starting, Secure
    PROVE  StartInv'
<1> USE OneElement, OneSame DEF StartInv, Secure, policy, ends, channels, Consume
<1>a. /\ wire = <<"hello">> /\ wire' = <<>> /\ isStartup /\ BeforeStartup /\ down = <<>>
  BY OnTheWire DEF InTurn, BeforeStartup, AfterStartup
<1>1. Starting'
  BY DEF Starting
<1>2. StartShapes'
  <2>1. peer' \in Peers
    BY DEF StartShapes, Peers
  <2>2. legs' \in Legs
    BY DEF StartShapes, Legs
  <2> QED BY <2>1, <2>2 DEF StartShapes, Nothing
<1>3. OneMessage'
  BY <1>a DEF OneMessage
<1>4. InTurn'
  BY <1>a DEF InTurn, BeforeStartup
<1>5. ClientLeg'
  BY <1>a DEF ClientLeg, AskedFirst
<1>6. ServerLeg'
  BY DEF ServerLeg, RequiredIsSecured
<1> QED BY <1>1, <1>2, <1>3, <1>4, <1>5, <1>6

\* A slot changes nothing of what is under way.
LEMMA GetSlotStep ==
    ASSUME StartInv, Starting, GetSlot
    PROVE  StartInv'
<1> USE OneElement, OneSame DEF StartInv, GetSlot, policy, ends, channels, GoOn
<1>1. Starting'
  BY DEF Starting
<1>2. StartShapes'
  BY DEF StartShapes
<1>3. OneMessage'
  BY DEF OneMessage, Is
<1>4. InTurn'
  BY DEF InTurn, BeforeStartup, AfterStartup, Is
<1>5. ClientLeg'
  BY DEF ClientLeg, AskedFirst
<1>6. ServerLeg'
  BY DEF ServerLeg, RequiredIsSecured
<1> QED BY <1>1, <1>2, <1>3, <1>4, <1>5, <1>6

\* The policy is read when the connection stands: TLS is asked for, or it is off.
LEMMA ConnectStep ==
    ASSUME StartInv, Starting, Connect
    PROVE  StartInv'
<1> USE OneElement, OneSame DEF StartInv, Connect, policy, ends, channels, GoOn
<1>1. Starting'
  BY DEF Starting
<1>2. StartShapes'
  BY DEF StartShapes
<1>3. OneMessage'
  BY DEF OneMessage, Is
<1>4. InTurn'
  BY DEF InTurn, BeforeStartup, AfterStartup, Is
<1>5. ClientLeg'
  BY DEF ClientLeg, AskedFirst
<1>6. ServerLeg'
  BY DEF ServerLeg, RequiredIsSecured
<1> QED BY <1>1, <1>2, <1>3, <1>4, <1>5, <1>6

\* The server's S is the answer to the proxy's request.
LEMMA AgreesStep ==
    ASSUME StartInv, Starting, UpstreamAgrees
    PROVE  StartInv'
<1> USE OneElement, OneSame DEF StartInv, UpstreamAgrees, policy, ends, channels, GoOn
<1>1. Starting'
  BY DEF Starting
<1>2. StartShapes'
  BY DEF StartShapes
<1>3. OneMessage'
  BY DEF OneMessage, Is
<1>4. InTurn'
  BY DEF InTurn, BeforeStartup, AfterStartup, Is
<1>5. ClientLeg'
  BY DEF ClientLeg, AskedFirst
<1>6. ServerLeg'
  BY DEF ServerLeg, RequiredIsSecured
<1> QED BY <1>1, <1>2, <1>3, <1>4, <1>5, <1>6

\* The handshake encrypts the server's leg.
LEMMA UpgradeStep ==
    ASSUME StartInv, Starting, Upgrade
    PROVE  StartInv'
<1> USE OneElement, OneSame DEF StartInv, Upgrade, policy, ends, channels, GoOn
<1>1. Starting'
  BY DEF Starting
<1>2. StartShapes'
  BY DEF StartShapes, Legs
<1>3. OneMessage'
  BY DEF OneMessage, Is
<1>4. InTurn'
  BY DEF InTurn, BeforeStartup, AfterStartup, Is
<1>5. ClientLeg'
  BY DEF ClientLeg, AskedFirst
<1>6. ServerLeg'
  BY DEF ServerLeg, RequiredIsSecured
<1> QED BY <1>1, <1>2, <1>3, <1>4, <1>5, <1>6

\* A request for TLS that reaches the loop is not that of a client who began with one.
LEMMA LoopDeniesStep ==
    ASSUME StartInv, Starting, LoopDeniesSsl
    PROVE  StartInv'
<1> USE OneElement, OneSame DEF StartInv, LoopDeniesSsl, policy, ends, channels, Consume,
        Says
<1>a. /\ BeforeStartup /\ wire = <<"ssl">> /\ Is("asked") /\ down = <<>>
      /\ up = <<>> /\ back = <<>>
  BY OnTheWire DEF SentAt, InTurn, BeforeStartup
<1>1. Starting'
  BY DEF Starting
<1>2. StartShapes'
  BY DEF StartShapes, Nothing
<1>3. OneMessage'
  BY DEF OneMessage
<1>4. InTurn'
  BY <1>a DEF InTurn, BeforeStartup, Is
<1>5. ClientLeg'
  BY <1>a DEF ClientLeg, AskedFirst
<1>6. ServerLeg'
  BY DEF ServerLeg, RequiredIsSecured
<1> QED BY <1>1, <1>2, <1>3, <1>4, <1>5, <1>6

\* The first message that goes on is a startup message of the codec's, the next a password.
LEMMA ForwardUpStep ==
    ASSUME StartInv, Starting, ForwardUp
    PROVE  StartInv'
<1> USE OneElement, OneSame DEF StartInv, ForwardUp, policy, ends, channels, Consume
<1>a. /\ wire' = <<>> /\ arrived' = Nothing /\ up = <<>> /\ back = <<>> /\ down = <<>>
      /\ \/ /\ isStartup /\ Reads("listening") /\ forwarded = <<>>
            /\ \/ wire = <<"startup">> /\ Is("starting") /\ up' = <<"startup">>
               \/ wire = <<"gss">> /\ Is("askedGss") /\ up' = <<"long gss">>
               \/ wire = <<"cancel">> /\ Is("cancelling") /\ up' = <<"keyless">>
         \/ ~isStartup /\ Is("proving") /\ Reads("asked") /\ up' = <<"password">>
  <2>1. CASE isStartup
    <3>1. up = <<>> /\ back = <<>> /\ down = <<>> /\ Reads("listening") /\ forwarded = <<>>
      BY <2>1 DEF InTurn, BeforeStartup, Reads
    <3>2. \/ wire = <<"startup">> /\ Is("starting")
          \/ wire = <<"gss">> /\ Is("askedGss")
          \/ wire = <<"cancel">> /\ Is("cancelling")
      BY <2>1, OnTheWire DEF SentAt
    <3> QED BY <3>1, <3>2 DEF Recoded
  <2>2. CASE ~isStartup
    <3>1. OnlyWire("password") /\ Is("proving") /\ Reads("asked")
      BY <2>2 DEF InTurn, AfterStartup, OnlyUp, OnlyBack, OnlyDown, NoMessage
    <3> QED BY <3>1 DEF OnlyWire, Recoded
  <2> QED BY <2>1, <2>2
<1>b. /\ forwarded' \in Seq(Legs)
      /\ \A i \in DOMAIN forwarded' :
            \/ forwarded'[i] = legs
            \/ i \in DOMAIN forwarded /\ forwarded'[i] = forwarded[i]
  BY DEF StartShapes
<1>1. Starting'
  BY DEF Starting
<1>2. StartShapes'
  <2>1. {acceptor', upstreamTls', wasOptional', isStartup'} \subseteq BOOLEAN
    BY Zenon DEF StartShapes
  <2>2. UNCHANGED <<legs, peer>> /\ arrived' = Nothing
    OBVIOUS
  <2> HIDE DEF ForwardUp
  <2> QED BY <2>1, <2>2, <1>b DEF StartShapes, Nothing, Whole
<1>3. OneMessage'
  BY DEF OneMessage
<1>4. InTurn'
  BY <1>a DEF InTurn, AfterStartup, OnlyUp, Reads, Is
<1>5. ClientLeg'
  BY <1>a, <1>b DEF ClientLeg, AskedFirst
<1>6. ServerLeg'
  BY <1>b DEF ServerLeg, RequiredIsSecured
<1> QED BY <1>1, <1>2, <1>3, <1>4, <1>5, <1>6

\* What comes back is the server's question, or its refusal.
LEMMA ForwardDownStep ==
    ASSUME StartInv, Starting, ForwardDown
    PROVE  StartInv'
<1> USE OneElement, OneSame DEF StartInv, ForwardDown, policy, ends, channels, Says
<1>a. /\ ~isStartup /\ back' = <<>> /\ up = <<>> /\ wire = <<>> /\ down = <<>>
      /\ \/ OnlyBack("auth") /\ Is("starting") /\ Reads("asked") /\ down' = <<"auth">>
         \/ /\ OnlyBack("fatal") /\ peer.at \in {"starting", "proving", "cancelling", "gone"}
            /\ server = "gone" /\ down' = <<"fatal">>
  BY DEF InTurn, BeforeStartup, AfterStartup, OnlyUp, OnlyWire, OnlyBack, OnlyDown,
     NoMessage
<1>1. Starting'
  BY DEF Starting
<1>2. StartShapes'
  BY DEF StartShapes
<1>3. OneMessage'
  BY <1>a DEF OneMessage
<1>4. InTurn'
  BY <1>a DEF InTurn, AfterStartup, OnlyDown, Reads, Is
<1>5. ClientLeg'
  BY <1>a DEF ClientLeg, AskedFirst
<1>6. ServerLeg'
  BY DEF ServerLeg, RequiredIsSecured
<1> QED BY <1>1, <1>2, <1>3, <1>4, <1>5, <1>6

\* The server answers a request for TLS with a byte.
LEMMA ServeSslStep ==
    ASSUME StartInv, Starting, ServeSsl
    PROVE  StartInv'
<1> USE OneElement, OneSame DEF StartInv, ServeSsl, policy, ends, channels, Serves
<1>a. /\ isStartup /\ BeforeStartup /\ at = "asking" /\ up = <<"ssl">> /\ back = <<>>
      /\ up' = <<>> /\ \E byte \in {"S", "N", "E"} : back' = <<byte>>
  BY DEF InTurn, BeforeStartup, AfterStartup, OnlyUp, OnlyWire, OnlyBack, OnlyDown
<1>1. Starting'
  BY DEF Starting
<1>2. StartShapes'
  BY DEF StartShapes
<1>3. OneMessage'
  BY DEF OneMessage, Is
<1>4. InTurn'
  BY <1>a DEF InTurn, BeforeStartup, Is
<1>5. ClientLeg'
  BY DEF ClientLeg, AskedFirst
<1>6. ServerLeg'
  BY DEF ServerLeg, RequiredIsSecured
<1> QED BY <1>1, <1>2, <1>3, <1>4, <1>5, <1>6

\* The server answers a startup message, or whatever the codec has made of another.
LEMMA ServeStartupStep ==
    ASSUME StartInv, Starting, ServeStartup
    PROVE  StartInv'
<1> USE OneElement, OneSame DEF StartInv, ServeStartup, policy, ends, channels, Serves
<1>a. ~isStartup /\ AfterStartup /\ up # <<>>
  BY DEF InTurn, BeforeStartup
<1>b. /\ up' = <<>> /\ wire = <<>> /\ down = <<>>
      /\ \/ Is("starting") /\ server' = "asked" /\ back' = <<"auth">>
         \/ Is("starting") /\ server' = "gone" /\ back' = <<"fatal">>
         \/ Is("askedGss") /\ server' = "listening" /\ back' = <<"N">>
         \/ Is("cancelling") /\ server' = "gone" /\ back' = <<>>
  BY <1>a DEF AfterStartup, OnlyUp, OnlyWire, OnlyBack, OnlyDown
<1>c. UNCHANGED <<policy, at, legs, isStartup, peer, wire, arrived, down, forwarded>>
  OBVIOUS
<1> HIDE DEF ServeStartup
<1>1. Starting'
  BY <1>c DEF Starting
<1>2. StartShapes'
  BY <1>c DEF StartShapes
<1>3. OneMessage'
  BY <1>b, <1>c DEF OneMessage
<1>4. InTurn'
  BY <1>a, <1>b, <1>c DEF InTurn, AfterStartup, OnlyBack, NoMessage, Reads, Is
<1>5. ClientLeg'
  BY <1>c DEF ClientLeg, AskedFirst
<1>6. ServerLeg'
  BY <1>c DEF ServerLeg, RequiredIsSecured
<1> QED BY <1>1, <1>2, <1>3, <1>4, <1>5, <1>6

\* The server lets the client in or turns it away.
LEMMA ServePasswordStep ==
    ASSUME StartInv, Starting, ServePassword
    PROVE  StartInv'
<1> USE OneElement, OneSame DEF StartInv, ServePassword, policy, ends, channels, Serves
<1>a. ~isStartup /\ AfterStartup /\ up # <<>>
  BY DEF InTurn, BeforeStartup
<1>b. /\ up' = <<>> /\ wire = <<>> /\ down = <<>> /\ Is("proving")
      /\ \/ server' = "ready" /\ back' = <<>>
         \/ server' = "gone" /\ back' = <<"fatal">>
  BY <1>a DEF AfterStartup, OnlyUp, OnlyWire, OnlyBack, OnlyDown
<1>1. Starting'
  BY DEF Starting
<1>2. StartShapes'
  BY DEF StartShapes
<1>3. OneMessage'
  BY <1>b DEF OneMessage
<1>4. InTurn'
  BY <1>a, <1>b DEF InTurn, AfterStartup, OnlyUp, OnlyBack, NoMessage, Reads, Is
<1>5. ClientLeg'
  BY DEF ClientLeg, AskedFirst
<1>6. ServerLeg'
  BY DEF ServerLeg, RequiredIsSecured
<1> QED BY <1>1, <1>2, <1>3, <1>4, <1>5, <1>6

\* The server may leave.
LEMMA ServerLeavesStep ==
    ASSUME StartInv, Starting, ServerLeaves
    PROVE  StartInv'
<1> USE OneElement, OneSame DEF StartInv, ServerLeaves, policy, ends, channels
<1>1. Starting'
  BY DEF Starting
<1>2. StartShapes'
  BY DEF StartShapes
<1>3. OneMessage'
  BY DEF OneMessage, Is
<1>4. InTurn'
  BY DEF InTurn, BeforeStartup, AfterStartup, OnlyUp, OnlyWire, OnlyBack, OnlyDown, Reads,
     Is
<1>5. ClientLeg'
  BY DEF ClientLeg, AskedFirst
<1>6. ServerLeg'
  BY DEF ServerLeg, RequiredIsSecured
<1> QED BY <1>1, <1>2, <1>3, <1>4, <1>5, <1>6

\* More of a message arrives.
LEMMA ArriveStep ==
    ASSUME StartInv, Starting, NEW n \in 1..Whole, Arrive(n)
    PROVE  StartInv'
<1> USE OneElement, OneSame DEF StartInv, Arrive, policy, ends, channels
<1>1. Starting'
  BY DEF Starting
<1>2. StartShapes'
  BY DEF StartShapes, Nothing
<1>3. OneMessage'
  BY DEF OneMessage, Is, Arrivals, Whole
<1>4. InTurn'
  BY DEF InTurn, BeforeStartup, AfterStartup, OnlyUp, OnlyWire, OnlyBack, OnlyDown,
     NoMessage, Reads, Is
<1>5. ClientLeg'
  BY DEF ClientLeg, AskedFirst
<1>6. ServerLeg'
  BY DEF ServerLeg, RequiredIsSecured
<1> QED BY <1>1, <1>2, <1>3, <1>4, <1>5, <1>6

\* A session opens with nothing under way.
LEMMA OpensStep ==
    ASSUME StartInv, Starting, Opens
    PROVE  StartInv'
<1>1. AskedIsSecured' /\ RequiredIsSecured'
  BY DEF Opens, AskedIsSecured, RequiredIsSecured
<1>2. up = <<>>
  BY DEF Opens, StartInv, InTurn, BeforeStartup, AfterStartup, NoMessage, Reads
<1>3. EndsUnderstand'
  BY <1>2 DEF Opens, EndsUnderstand, channels
<1> QED BY <1>1, <1>3 DEF Opens, StartInv, Starting, OpensAsAsked

\* A session that ends says no more to its client than that it failed.
LEMMA ClosesStep ==
    ASSUME StartInv, Starting, at' = "closed",
           UNCHANGED <<policy, peer, server, up, forwarded>>,
           down' \in {down, Append(down, "fatal")}
    PROVE  StartInv'
<1>1. OpensAsAsked
  BY InvOpens
<1>2. AskedIsSecured'
  BY <1>1 DEF OpensAsAsked, AskedIsSecured, policy
<1>3. RequiredIsSecured' /\ EndsUnderstand'
  BY <1>1 DEF OpensAsAsked, RequiredIsSecured, EndsUnderstand, policy
<1> QED BY <1>2, <1>3 DEF StartInv, Starting, OpensAsAsked

\* Every way for a session to end before it is open.
LEMMA EndStep ==
    ASSUME StartInv, Starting,
           \/ DeadlinePasses \/ SlotTimesOut \/ ConnectFails \/ UpstreamRefuses
           \/ UpgradeFails \/ PeerLost \/ IdleTimesOut \/ ShutsDown
    PROVE  StartInv'
<1>1. /\ at' = "closed" /\ UNCHANGED <<policy, peer, server, up, forwarded>>
      /\ down' \in {down, Append(down, "fatal")}
  BY DEF DeadlinePasses, SlotTimesOut, ConnectFails, UpstreamRefuses, UpgradeFails,
     PeerLost, IdleTimesOut, ShutsDown, Ends, Quietly, Says, GoOn, ends
<1> QED BY <1>1, ClosesStep

\* Every step of the start keeps the invariant.
LEMMA StartKeeps ==
    ASSUME StartInv, Starting, StartupNext
    PROVE  StartInv'
<1>1. CASE TaskStep
  BY <1>1, AcceptSslStep, DenySslStep, NoSslStep, SecureStep, GetSlotStep, ConnectStep,
     AgreesStep, UpgradeStep, EndStep DEF TaskStep
<1>2. CASE LoopStep
  BY <1>2, LoopDeniesStep, ForwardUpStep, ForwardDownStep, EndStep DEF LoopStep
<1> QED
  BY <1>1, <1>2, ToggleStep, AsksStep, AsksGssStep, StartsStep, HearsStep, LeavesStep,
     ArriveStep, OpensStep, ServeSslStep, ServeStartupStep, ServePasswordStep,
     ServerLeavesStep DEF StartupNext

\* A connection that has been accepted has sent and been sent nothing.
LEMMA StartBegins ==
    ASSUME Init
    PROVE  StartInv
<1> USE DEF Init, StartupInit
<1>1. StartShapes
  BY DEF StartShapes, Peers, Legs, Nothing, Whole
<1>2. OneMessage /\ InTurn
  BY DEF OneMessage, InTurn, BeforeStartup
<1>3. ClientLeg
  BY DEF ClientLeg, AskedFirst
<1>4. ServerLeg
  <2>1. RequiredIsSecured
    BY DEF RequiredIsSecured
  <2> QED BY <2>1 DEF ServerLeg
<1> QED BY <1>1, <1>2, <1>3, <1>4 DEF StartInv, Starting

\* A session that is open or closed changes nothing of how it opened.
LEMMA StartStaysPut ==
    ASSUME StartInv, UNCHANGED startup
    PROVE  StartInv'
<1> USE DEF StartInv, startup, policy, ends, channels
<1>1. CASE ~Starting
  BY <1>1 DEF Starting, OpensAsAsked, AskedIsSecured, RequiredIsSecured, EndsUnderstand
<1>2. CASE Starting
  <2>1. Starting' /\ StartShapes' /\ OneMessage'
    BY <1>2 DEF Starting, StartShapes, OneMessage, Is
  <2>2. InTurn'
    BY <1>2 DEF InTurn, BeforeStartup, AfterStartup, OnlyUp, OnlyWire, OnlyBack, OnlyDown,
       NoMessage, Reads, Is
  <2>3. ClientLeg'
    BY <1>2 DEF ClientLeg, AskedFirst
  <2>4. ServerLeg'
    BY <1>2 DEF ServerLeg, RequiredIsSecured
  <2> QED BY <2>1, <2>2, <2>3, <2>4
<1> QED BY <1>1, <1>2

\* Every step of a session keeps the invariant.
LEMMA StartGoesOn ==
    ASSUME StartInv, [Next]_vars
    PROVE  StartInv'
<1>1. CASE StartupStep
  BY <1>1, StartKeeps DEF StartupStep, Starting
<1>2. CASE RelayStep \/ Ended \/ UNCHANGED vars
  BY <1>2, StartStaysPut DEF RelayStep, Ended, vars
<1> QED BY <1>1, <1>2 DEF Next

\* process_postgres_connection and handle_postgres_protocol, for any number of requests
\* for TLS and of edits of upstream_tls: a client that begins by asking for TLS is never
\* denied it and sends nothing on without it; nothing of a client goes to the server in
\* the clear unless upstream_tls has been off; and each end hears only what it waits for.
THEOREM SessionsOpenAsAsked == Spec => []OpensAsAsked
<1>1. Spec => []StartInv
  BY StartBegins, StartGoesOn, PTL DEF Spec
<1> QED BY <1>1, InvOpens, PTL

-----------------------------------------------------------------------------
(* Types *)

Places  == {"peeking", "shaking", "waiting", "connecting", "asking", "upgrading", "relaying"}
Servers == {"listening", "asked", "ready", "gone"}

\* What no step of a session that goes on changes beyond its bound.
Within == /\ toggles \in 0..MaxToggles
          /\ peer.asks \in 0..MaxAsks
          /\ server \in Servers

\* A message of the client, which counts its requests for TLS.
LEMMA SendsWithin ==
    ASSUME StartInv, Starting, Within, NEW kind, NEW next,
           kind = "ssl" => peer.asks < MaxAsks, Sends(kind, next)
    PROVE  Within' /\ at' = at
<1>1. peer \in Peers
  BY DEF StartInv, StartShapes
<1>2. peer'.asks = IF kind = "ssl" THEN peer.asks + 1 ELSE peer.asks
  BY <1>1 DEF Sends, Peers
<1>3. UNCHANGED <<toggles, server, at>>
  BY DEF Sends, policy
<1> QED BY <1>2, <1>3, PgStartupAssumption DEF Within

\* What the task and the server do of the start, other than to end or to open it.
LEMMA GoesOnWithin ==
    ASSUME StartInv, Starting, at \in Places, Within,
           \/ AcceptSsl \/ DenySsl \/ NoSsl \/ Secure \/ GetSlot \/ Connect
           \/ UpstreamAgrees \/ Upgrade \/ LoopDeniesSsl \/ ForwardUp \/ ForwardDown
           \/ ServeSsl \/ ServeStartup \/ ServePassword \/ ServerLeaves
           \/ \E n \in 1..Whole : Arrive(n)
    PROVE  Within' /\ at' \in Places
<1>1. peer \in Peers
  BY DEF StartInv, StartShapes
<1>2. CASE Secure
  <2>1. peer'.asks = peer.asks
    BY <1>1, <1>2 DEF Secure, Peers
  <2>2. UNCHANGED <<toggles, server>> /\ at' = "waiting"
    BY <1>2 DEF Secure, policy
  <2> QED BY <2>1, <2>2 DEF Within, Places
<1>3. CASE ServeSsl \/ ServeStartup \/ ServePassword \/ ServerLeaves
  <2>1. UNCHANGED <<toggles, peer, at>> /\ server' \in Servers
    BY <1>3 DEF ServeSsl, ServeStartup, ServePassword, ServerLeaves, Serves, policy, Servers
  <2> QED BY <2>1 DEF Within
<1>4. CASE \/ AcceptSsl \/ DenySsl \/ NoSsl \/ GetSlot \/ Connect \/ UpstreamAgrees \/ Upgrade
           \/ LoopDeniesSsl \/ ForwardUp \/ ForwardDown \/ \E n \in 1..Whole : Arrive(n)
  <2>1. UNCHANGED <<policy, ends>>
    BY <1>4 DEF AcceptSsl, DenySsl, NoSsl, GetSlot, Connect, UpstreamAgrees, Upgrade, GoOn,
       LoopDeniesSsl, ForwardUp, ForwardDown, Arrive
  <2>2. at' \in Places
    BY <1>4 DEF AcceptSsl, DenySsl, NoSsl, GetSlot, Connect, UpstreamAgrees, Upgrade, GoOn,
       LoopDeniesSsl, ForwardUp, ForwardDown, Arrive, Places
  <2> QED BY <2>1, <2>2 DEF policy, ends, Within
<1> QED BY <1>2, <1>3, <1>4

\* What ends it leaves the types alone.
LEMMA EndsTyped ==
    ASSUME StartupTypeOK,
           \/ DeadlinePasses \/ SlotTimesOut \/ ConnectFails \/ UpstreamRefuses
           \/ UpgradeFails \/ PeerLost \/ IdleTimesOut \/ ShutsDown
    PROVE  StartupTypeOK'
<1>1. at' = "closed" /\ UNCHANGED <<policy, legs, isStartup, ends, wire, arrived>>
  BY DEF DeadlinePasses, SlotTimesOut, ConnectFails, UpstreamRefuses, UpgradeFails,
     PeerLost, IdleTimesOut, ShutsDown, Ends, GoOn
<1> QED BY <1>1 DEF StartupTypeOK, policy, ends

\* A session that opens forgets how.
LEMMA OpensTyped ==
    ASSUME StartupTypeOK, Opens
    PROVE  StartupTypeOK'
<1>1. legs' \in [client : BOOLEAN, server : BOOLEAN] /\ peer'.asks = 0
  BY DEF Opens
<1>2. at' = "open" /\ ~acceptor' /\ ~upstreamTls' /\ toggles' = 0 /\ wasOptional'
      /\ {acceptor', upstreamTls', wasOptional'} \subseteq BOOLEAN
      /\ UNCHANGED <<isStartup, server, wire, arrived>>
  BY DEF Opens, channels
<1> QED BY <1>1, <1>2, PgStartupAssumption DEF StartupTypeOK

\* Every step of the start keeps the types.
LEMMA StartTyped ==
    ASSUME StartInv, StartInv', StartupTypeOK, Starting, StartupNext
    PROVE  StartupTypeOK'
<1>1. at \in Places /\ Within
  BY DEF StartupTypeOK, Starting, Places, Within, Servers
<1>2. peer \in Peers
  BY DEF StartInv, StartShapes
<1>3. at' \in Places /\ Within' => StartupTypeOK'
  <2> SUFFICES ASSUME at' \in Places, Within' PROVE StartupTypeOK'
    OBVIOUS
  <2>1. Starting'
    BY DEF Starting, Places
  <2> QED BY <2>1 DEF StartInv, StartShapes, OneMessage, Legs, Places, Within, Servers,
             StartupTypeOK
<1>4. CASE Toggle
  BY <1>1, <1>3, <1>4, PgStartupAssumption DEF Toggle, Within, ends
<1>5. CASE Asks \/ AsksGss \/ Starts
  BY <1>1, <1>3, <1>5, SendsWithin DEF Asks, AsksGss, Starts
<1>6. CASE Hears
  <2>1. CASE \E kind \in {"hello", "password"}, next \in {"shaking", "proving"} :
                 Sends(kind, next)
    BY <1>1, <1>3, <2>1, SendsWithin
  <2>2. CASE /\ \E next \in {"denied", "gone", "confused"} : peer' = [peer EXCEPT !.at = next]
             /\ UNCHANGED <<toggles, at, server>>
    BY <1>1, <1>2, <1>3, <2>2 DEF Within, Peers
  <2> QED BY <1>6, <2>1, <2>2 DEF Hears, policy
<1>7. CASE Leaves
  BY <1>1, <1>2, <1>3, <1>7 DEF Leaves, Within, Peers, policy
<1>8. CASE TaskStep \/ LoopStep \/ ServeSsl \/ ServeStartup \/ ServePassword \/ ServerLeaves
           \/ \E n \in 1..Whole : Arrive(n)
  BY <1>1, <1>3, <1>8, GoesOnWithin, EndsTyped DEF TaskStep, LoopStep
<1>9. CASE Opens
  BY <1>9, OpensTyped
<1> QED BY <1>4, <1>5, <1>6, <1>7, <1>8, <1>9 DEF StartupNext

\* So does every step of a session.
LEMMA SessionKeepsTypes ==
    ASSUME StartInv, StartInv', StartupTypeOK, [Next]_vars
    PROVE  StartupTypeOK'
<1>1. CASE StartupStep
  BY <1>1, StartTyped DEF StartupStep, Starting
<1>2. CASE RelayStep \/ Ended \/ UNCHANGED vars
  BY <1>2 DEF RelayStep, Ended, vars, startup, policy, ends, channels, StartupTypeOK
<1> QED BY <1>1, <1>2 DEF Next

\* process_postgres_connection and handle_postgres_protocol, for any bound of the requests
\* for TLS and of the edits of upstream_tls: the start of a session and what it leaves
\* behind are of their types.
THEOREM StartsAreTyped == Spec => []StartupTypeOK
<1>1. Init => StartInv /\ StartupTypeOK
  <2>1. ASSUME Init PROVE StartupTypeOK
    BY <2>1, PgStartupAssumption DEF Init, StartupInit, StartupTypeOK, Nothing, Whole
  <2> QED BY <2>1, StartBegins
<1>2. StartInv /\ StartupTypeOK /\ [Next]_vars => StartInv' /\ StartupTypeOK'
  BY StartGoesOn, SessionKeepsTypes
<1> QED BY <1>1, <1>2, PTL DEF Spec
=============================================================================
