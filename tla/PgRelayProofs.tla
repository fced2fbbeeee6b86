---------------------------- MODULE PgRelayProofs ----------------------------
(***************************************************************************)
(* What holds of the relay of a PostgreSQL session for any client, any     *)
(* number of messages, of edits of the policy and of rows of the catalog:  *)
(* what the client sees, and by whose columns and which rules the rows     *)
(* it sees are masked.                                                     *)
(***************************************************************************)
EXTENDS PgSessionProofs, FiniteSetTheorems, SequenceTheorems, TLAPS

-----------------------------------------------------------------------------
(* The inductive invariant *)

ClientRequests == {r \in Requests : r.kind # "Catalog"}
Messages       == {a \in ServerAnswers : a.kind = "Z" => a = ReadyForQuery}
Deliveries     == [answer : Messages, map : Maps, raw : BOOLEAN]

Shapes ==
    /\ rules \in Nat
    /\ enabled \in BOOLEAN
    /\ colMap \in Maps
    /\ fromClient \in Seq(ClientRequests)
    /\ toServer \in Seq(Requests)
    /\ fromServer \in Seq(Messages)
    /\ answers \in Seq(Messages)
    /\ delivered \in Seq(Deliveries)

\* The answers the client has seen.
AnswersOf(deliveries) == [i \in DOMAIN deliveries |-> deliveries[i].answer]
Seen == AnswersOf(delivered)

\* Before the first ReadyForQuery of the server nobody has said anything else.
Fresh ==
    /\ delivered = <<>> /\ fromClient = <<>> /\ toServer = <<>>
    /\ fromServer = <<ReadyForQuery>> /\ answers = <<ReadyForQuery>>

\* The bootstrap is alone with the server: its query is on the way up, or what is
\* left of the answer on the way down, up to the ReadyForQuery that ends it.
ReadyIsLast(s) == /\ s # <<>>
                  /\ \A i \in 1..Len(s) : s[i].kind = "Z" <=> i = Len(s)
Alone ==
    /\ ~bootDone
    /\ answers = Seen
    /\ \/ toServer = <<CatalogQuery>> /\ fromServer = <<>>
       \/ toServer = <<>> /\ ReadyIsLast(fromServer)

\* From then on what the client has not seen yet is on its way to it.
InOrder ==
    /\ toServer \in Seq(ClientRequests)
    /\ answers = Seen \o fromServer

RelayInv ==
    /\ Shapes
    /\ relay \in {"relaying", "bootstrapping", "closed"}
    /\ relay = "relaying" /\ ~bootDone => Fresh
    /\ relay = "relaying" /\ bootDone => InOrder
    /\ relay = "bootstrapping" => Alone
    /\ relay = "closed" => Transparent

-----------------------------------------------------------------------------
(* Lemmas about sequences and answers *)

\* A sequence is a prefix of itself with more appended.
LEMMA PrefixOfConcat ==
    ASSUME NEW S, NEW s \in Seq(S), NEW t \in Seq(S)
    PROVE  IsPrefix(s, s \o t)
<1>1. Len(s) <= Len(s \o t) /\ Len(s) \in Nat /\ Len(s \o t) = Len(s) + Len(t)
  BY ConcatProperties, LenProperties
<1>2. SubSeq(s, 1, Len(s)) = SubSeq(s \o t, 1, Len(s))
  <2>1. CASE Len(s) = 0
    BY <2>1, SubSeqEmpty
  <2>2. CASE Len(s) # 0
    BY <1>1, <2>2, SubSeqOfConcat1
  <2> QED BY <2>1, <2>2
<1> QED BY <1>1, <1>2 DEF IsPrefix

\* What the client has seen after one more delivery.
LEMMA SeenShape ==
    ASSUME NEW ds \in Seq(Deliveries)
    PROVE  /\ AnswersOf(ds) \in Seq(Messages)
           /\ Len(AnswersOf(ds)) = Len(ds)
           /\ \A d \in Deliveries :
                 AnswersOf(Append(ds, d)) = Append(AnswersOf(ds), d.answer)
<1>1. Len(ds) \in Nat /\ DOMAIN ds = 1..Len(ds)
      /\ \A i \in 1..Len(ds) : ds[i].answer \in Messages
  <2>1. \A i \in 1..Len(ds) : ds[i] \in Deliveries
    BY ElementOfSeq
  <2>2. \A d \in Deliveries : d.answer \in Messages
    BY DEF Deliveries
  <2> QED BY <2>1, <2>2, LenProperties
<1>2. AnswersOf(ds) \in Seq(Messages) /\ Len(AnswersOf(ds)) = Len(ds)
  BY <1>1 DEF AnswersOf
<1>3. ASSUME NEW d \in Deliveries
      PROVE  AnswersOf(Append(ds, d)) = Append(AnswersOf(ds), d.answer)
  <2>1. d.answer \in Messages
    BY DEF Deliveries
  <2>2. /\ Append(ds, d) \in Seq(Deliveries) /\ Len(Append(ds, d)) = Len(ds) + 1
        /\ DOMAIN Append(ds, d) = 1..(Len(ds) + 1)
        /\ \A i \in 1..Len(ds) : Append(ds, d)[i] = ds[i]
        /\ Append(ds, d)[Len(ds) + 1] = d
    BY AppendProperties, LenProperties
  <2>3. AnswersOf(Append(ds, d)) \in Seq(Messages)
        /\ Len(AnswersOf(Append(ds, d))) = Len(ds) + 1
    <3>1. \A i \in 1..(Len(ds) + 1) : Append(ds, d)[i].answer \in Messages
      BY <1>1, <2>1, <2>2
    <3> QED BY <1>1, <2>2, <3>1 DEF AnswersOf
  <2>4. /\ Append(AnswersOf(ds), d.answer) \in Seq(Messages)
        /\ Len(Append(AnswersOf(ds), d.answer)) = Len(ds) + 1
        /\ \A i \in 1..Len(ds) : Append(AnswersOf(ds), d.answer)[i] = AnswersOf(ds)[i]
        /\ Append(AnswersOf(ds), d.answer)[Len(ds) + 1] = d.answer
    BY <1>2, <2>1, AppendProperties
  <2>5. \A i \in 1..(Len(ds) + 1) :
            AnswersOf(Append(ds, d))[i] = Append(AnswersOf(ds), d.answer)[i]
    BY <1>1, <2>2, <2>4 DEF AnswersOf
  <2> QED BY <1>1, <2>3, <2>4, <2>5, SeqEqual
<1> QED BY <1>2, <1>3

\* The server answers with answers.
LEMMA AnswersShape ==
    ASSUME NEW request \in Requests, NEW as \in Answers(request)
    PROVE  as \in Seq(Messages)
<1> DEFINE Of(kind)   == Answer(kind, request.of, request.kind)
           Catalog(n) == [i \in 1..n |-> Of("D")]
<1>1. /\ request.of \in Stmts \cup {NoStmt} /\ request.kind \in RequestKinds
      /\ ReadyForQuery \in Messages
      /\ \A kind \in {"T", "D", "Other"} : Of(kind) \in Messages
  BY DEF Requests, RequestKinds, Answer, ServerAnswers, Messages, ReadyForQuery
<1> HIDE DEF Of
<1>2. \A n \in Nat : Catalog(n) \in Seq(Messages)
  BY <1>1
<1> HIDE DEF Catalog
<1>3. /\ <<Of("T")>> \in Seq(Messages) /\ <<ReadyForQuery>> \in Seq(Messages)
      /\ <<Of("Other")>> \in Seq(Messages)
      /\ <<Of("D"), Of("D")>> \in Seq(Messages)
      /\ <<Of("Other"), ReadyForQuery>> \in Seq(Messages)
  BY <1>1
<1>4. CASE request.kind = "Query"
  <2>1. as \in {<<Of("T")>> \o <<Of("D"), Of("D")>> \o <<ReadyForQuery>>,
                <<Of("Other"), ReadyForQuery>>}
    BY <1>4 DEF Answers, Of
  <2>2. <<Of("T")>> \o <<Of("D"), Of("D")>> \in Seq(Messages)
    BY <1>3, ConcatProperties
  <2>3. <<Of("T")>> \o <<Of("D"), Of("D")>> \o <<ReadyForQuery>> \in Seq(Messages)
    BY <1>3, <2>2, ConcatProperties
  <2> QED BY <1>3, <2>1, <2>3
<1>5. CASE request.kind = "Catalog"
  <2>1. \/ as = <<Of("T")>> \o Catalog(CatalogSize) \o <<ReadyForQuery>>
        \/ \E n \in 0..(CatalogSize - 1) : as = Catalog(n) \o <<Of("Other"), ReadyForQuery>>
    BY <1>5 DEF Answers, Of, Catalog
  <2>2. <<Of("T")>> \o Catalog(CatalogSize) \in Seq(Messages)
    BY <1>2, <1>3, ConcatProperties, PgRelayAssumption
  <2>3. \A n \in 0..(CatalogSize - 1) : Catalog(n) \in Seq(Messages)
    BY <1>2, PgRelayAssumption
  <2> QED BY <1>3, <2>1, <2>2, <2>3, ConcatProperties
<1>6. CASE request.kind \in {"Parse", "Describe", "Execute", "Sync"}
  <2>1. as \in {<<Of("Other")>>, <<Of("T")>>, <<Of("D"), Of("D")>>, <<ReadyForQuery>>}
    BY <1>6 DEF Answers, Of
  <2> QED BY <1>3, <2>1
<1> QED BY <1>1, <1>4, <1>5, <1>6 DEF RequestKinds

\* A concatenation ends in its only ReadyForQuery when its second part does and its
\* first has none.
LEMMA ReadyEnds ==
    ASSUME NEW s \in Seq(Messages), NEW t \in Seq(Messages),
           \A i \in 1..Len(s) : s[i].kind # "Z", ReadyIsLast(t)
    PROVE  s \o t \in Seq(Messages) /\ ReadyIsLast(s \o t)
<1>1. Len(s) \in Nat /\ Len(t) \in Nat \ {0}
  BY LenProperties, EmptySeq DEF ReadyIsLast
<1>2. /\ s \o t \in Seq(Messages) /\ Len(s \o t) = Len(s) + Len(t)
      /\ \A i \in 1..(Len(s) + Len(t)) :
            (s \o t)[i] = IF i <= Len(s) THEN s[i] ELSE t[i - Len(s)]
  BY ConcatProperties
<1>3. ASSUME NEW i \in 1..Len(s \o t)
      PROVE  (s \o t)[i].kind = "Z" <=> i = Len(s \o t)
  <2>1. CASE i <= Len(s)
    BY <1>1, <1>2, <2>1
  <2>2. CASE ~(i <= Len(s))
    <3>1. i - Len(s) \in 1..Len(t) /\ (s \o t)[i] = t[i - Len(s)]
      BY <1>1, <1>2, <2>2
    <3>2. t[i - Len(s)].kind = "Z" <=> i - Len(s) = Len(t)
      BY <3>1 DEF ReadyIsLast
    <3> QED BY <1>1, <1>2, <3>1, <3>2
  <2> QED BY <2>1, <2>2
<1>4. s \o t # <<>>
  BY <1>1, <1>2
<1> QED BY <1>2, <1>3, <1>4 DEF ReadyIsLast

\* What is left of such a sequence once its next answer is taken.
LEMMA ReadyTail ==
    ASSUME NEW s \in Seq(Messages), ReadyIsLast(s)
    PROVE  /\ Head(s).kind = "Z" => Tail(s) = <<>>
           /\ Head(s).kind # "Z" => ReadyIsLast(Tail(s))
<1> DEFINE t == Tail(s)
<1>1. s # <<>>
  BY DEF ReadyIsLast
<1>2. /\ t \in Seq(Messages) /\ Len(s) \in Nat \ {0} /\ Len(t) = Len(s) - 1
      /\ \A i \in 1..Len(t) : t[i] = s[i + 1]
      /\ Head(s) = s[1]
  BY <1>1, HeadTailProperties, EmptySeq
<1> HIDE DEF t
<1>3. s[1].kind = "Z" <=> Len(s) = 1
  <2>1. 1 \in 1..Len(s)
    BY <1>2
  <2> QED BY <2>1 DEF ReadyIsLast
<1>4. Len(s) = 1 => t = <<>>
  BY <1>2, EmptySeq
<1>5. ASSUME Len(s) # 1
      PROVE  ReadyIsLast(t)
  <2>1. Len(t) # 0
    BY <1>2, <1>5
  <2>2. t # <<>>
    BY <2>1
  <2>3. ASSUME NEW i \in 1..Len(t)
        PROVE  t[i].kind = "Z" <=> i = Len(t)
    <3>1. i + 1 \in 1..Len(s) /\ t[i] = s[i + 1]
      BY <1>2
    <3>2. s[i + 1].kind = "Z" <=> i + 1 = Len(s)
      BY <3>1 DEF ReadyIsLast
    <3> QED BY <1>2, <3>1, <3>2
  <2> QED BY <2>2, <2>3 DEF ReadyIsLast
<1> QED BY <1>2, <1>3, <1>4, <1>5 DEF t

\* The answer to the catalog query ends with its only ReadyForQuery.
LEMMA CatalogAnswer ==
    ASSUME NEW as \in Answers(CatalogQuery)
    PROVE  as \in Seq(Messages) /\ ReadyIsLast(as)
<1> DEFINE Of(kind)   == Answer(kind, NoStmt, "Catalog")
           Catalog(n) == [i \in 1..n |-> Of("D")]
<1>1. /\ CatalogQuery.kind = "Catalog" /\ CatalogQuery.of = NoStmt
      /\ ReadyForQuery \in Messages /\ ReadyForQuery.kind = "Z"
      /\ \A kind \in {"T", "D", "Other"} :
            Of(kind) \in Messages /\ Of(kind).kind # "Z"
  BY DEF CatalogQuery, Request, RequestKinds, Answer, ServerAnswers, Messages,
         ReadyForQuery
<1> HIDE DEF Of
<1>2. ASSUME NEW n \in Nat
      PROVE  /\ Catalog(n) \in Seq(Messages)
             /\ \A i \in 1..Len(Catalog(n)) : Catalog(n)[i].kind # "Z"
  BY <1>1
<1> HIDE DEF Catalog
<1>3. /\ <<Of("T")>> \in Seq(Messages)
      /\ \A i \in 1..Len(<<Of("T")>>) : <<Of("T")>>[i].kind # "Z"
  BY <1>1
<1>4. <<ReadyForQuery>> \in Seq(Messages) /\ ReadyIsLast(<<ReadyForQuery>>)
  BY <1>1 DEF ReadyIsLast
<1>5. /\ <<Of("Other"), ReadyForQuery>> \in Seq(Messages)
      /\ ReadyIsLast(<<Of("Other"), ReadyForQuery>>)
  BY <1>1 DEF ReadyIsLast
<1>6. \/ as = <<Of("T")>> \o Catalog(CatalogSize) \o <<ReadyForQuery>>
      \/ \E n \in 0..(CatalogSize - 1) : as = Catalog(n) \o <<Of("Other"), ReadyForQuery>>
  BY <1>1 DEF Answers, Of, Catalog
<1>7. CASE as = <<Of("T")>> \o Catalog(CatalogSize) \o <<ReadyForQuery>>
  <2>1. Catalog(CatalogSize) \in Seq(Messages)
        /\ \A i \in 1..Len(Catalog(CatalogSize)) : Catalog(CatalogSize)[i].kind # "Z"
    BY <1>2, PgRelayAssumption
  <2>2. /\ Catalog(CatalogSize) \o <<ReadyForQuery>> \in Seq(Messages)
        /\ ReadyIsLast(Catalog(CatalogSize) \o <<ReadyForQuery>>)
    BY <1>4, <2>1, ReadyEnds
  <2>3. as = <<Of("T")>> \o (Catalog(CatalogSize) \o <<ReadyForQuery>>)
    BY <1>3, <1>4, <1>7, <2>1, ConcatAssociative
  <2> QED BY <1>3, <2>2, <2>3, ReadyEnds
<1>8. CASE \E n \in 0..(CatalogSize - 1) : as = Catalog(n) \o <<Of("Other"), ReadyForQuery>>
  <2>1. PICK n \in 0..(CatalogSize - 1) : as = Catalog(n) \o <<Of("Other"), ReadyForQuery>>
    BY <1>8
  <2>2. n \in Nat
    BY PgRelayAssumption
  <2> QED BY <1>2, <1>5, <2>1, <2>2, ReadyEnds
<1> QED BY <1>6, <1>7, <1>8

\* Delivering the next answer keeps the order.
LEMMA DeliverKeeps ==
    ASSUME NEW ds \in Seq(Deliveries), NEW left \in Seq(Messages), left # <<>>,
           NEW d \in Deliveries, d.answer = Head(left)
    PROVE  AnswersOf(ds) \o left = AnswersOf(Append(ds, d)) \o Tail(left)
<1> DEFINE seen == AnswersOf(ds)
<1>1. seen \in Seq(Messages) /\ AnswersOf(Append(ds, d)) = Append(seen, Head(left))
  BY SeenShape
<1> HIDE DEF seen
<1>2. Head(left) \in Messages /\ Tail(left) \in Seq(Messages)
      /\ <<Head(left)>> \in Seq(Messages)
  BY HeadTailProperties
<1>3. left = <<Head(left)>> \o Tail(left)
  <2>1. /\ Len(left) \in Nat \ {0} /\ Len(Tail(left)) = Len(left) - 1
        /\ \A i \in 1..Len(Tail(left)) : Tail(left)[i] = left[i + 1]
    BY HeadTailProperties, EmptySeq
  <2>2. /\ <<Head(left)>> \o Tail(left) \in Seq(Messages)
        /\ Len(<<Head(left)>> \o Tail(left)) = Len(left)
        /\ \A i \in 1..Len(left) : (<<Head(left)>> \o Tail(left))[i] =
               IF i <= 1 THEN <<Head(left)>>[i] ELSE Tail(left)[i - 1]
    BY <1>2, <2>1, ConcatProperties
  <2>3. \A i \in 1..Len(left) : (<<Head(left)>> \o Tail(left))[i] = left[i]
    BY <2>1, <2>2
  <2> QED BY <2>1, <2>2, <2>3, SeqEqual
<1>4. Append(seen, Head(left)) = seen \o <<Head(left)>>
  BY <1>1, <1>2, AppendIsConcat
<1>5. seen \o (<<Head(left)>> \o Tail(left)) = (seen \o <<Head(left)>>) \o Tail(left)
  BY <1>1, <1>2, ConcatAssociative, SMTT(20)
<1> QED BY <1>1, <1>3, <1>4, <1>5 DEF seen

\* The invariant says what is claimed.
LEMMA InvProves ==
    ASSUME RelayInv
    PROVE  Transparent
<1>1. Transparent <=> IsPrefix(Seen, answers)
  BY DEF Transparent, Seen, AnswersOf
<1>2. Seen \in Seq(Messages) /\ fromServer \in Seq(Messages) /\ answers \in Seq(Messages)
  BY SeenShape DEF RelayInv, Shapes, Seen
<1>3. CASE relay = "closed"
  BY <1>3 DEF RelayInv
<1>4. CASE relay = "bootstrapping"
  <2>1. answers = Seen \o <<>> /\ <<>> \in Seq(Messages)
    BY <1>2, <1>4, ConcatEmptySeq DEF RelayInv, Alone
  <2> QED BY <1>1, <1>2, <2>1, PrefixOfConcat
<1>5. CASE relay = "relaying" /\ bootDone
  BY <1>1, <1>2, <1>5, PrefixOfConcat DEF RelayInv, InOrder
<1>6. CASE relay = "relaying" /\ ~bootDone
  <2>1. Seen = <<>>
    BY <1>6, SeenShape, EmptySeq DEF RelayInv, Shapes, Fresh, Seen
  <2>2. answers = Seen \o answers
    BY <1>2, <2>1, ConcatEmptySeq
  <2> QED BY <1>1, <1>2, <2>2, PrefixOfConcat
<1> QED BY <1>3, <1>4, <1>5, <1>6 DEF RelayInv

-----------------------------------------------------------------------------
(* What each action keeps *)

\* Whatever does not touch the messages.
LEMMA StaysPut ==
    ASSUME RelayInv, rules' \in Nat, enabled' \in BOOLEAN, colMap' \in Maps,
           UNCHANGED <<fromClient, toServer, fromServer, answers, delivered, bootDone>>,
           relay' \in {relay, "closed"}
    PROVE  RelayInv'
<1>1. Shapes'
  BY DEF RelayInv, Shapes
<1>2. Transparent'
  BY InvProves DEF Transparent
<1>3. CASE relay' = "closed"
  BY <1>1, <1>2, <1>3 DEF RelayInv
<1>4. CASE relay' = relay
  BY <1>1, <1>2, <1>4 DEF RelayInv, Fresh, Alone, InOrder, Seen
<1> QED BY <1>3, <1>4

\* The client sends, once it has been told that it may.
LEMMA SendStep ==
    ASSUME RelayInv, NEW request \in ClientRequests, NEW readies, Send(request, readies)
    PROVE  RelayInv'
<1>1. /\ fromClient' = Append(fromClient, request) /\ delivered # <<>> /\ relay # "closed"
      /\ UNCHANGED <<rules, enabled, colMap, toServer, fromServer, answers, delivered,
                     relay, bootDone>>
  BY DEF Send, config, boot, anonymizer
<1>2. Shapes'
  BY <1>1, AppendProperties DEF RelayInv, Shapes
<1> QED BY <1>1, <1>2 DEF RelayInv, Fresh, Alone, InOrder, Seen

\* The loop forwards what the client has sent, or gives the session up.
LEMMA ForwardStep ==
    ASSUME RelayInv, ForwardClient
    PROVE  RelayInv'
<1> DEFINE request == Head(fromClient)
<1>1. /\ relay = "relaying" /\ fromClient # <<>>
      /\ fromClient' = Tail(fromClient)
      /\ UNCHANGED <<rules, enabled, fromServer, answers, delivered, bootDone>>
  BY DEF ForwardClient, config, boot
<1>2. request \in ClientRequests /\ request \in Requests /\ Tail(fromClient) \in Seq(ClientRequests)
  BY <1>1, HeadTailProperties DEF RelayInv, Shapes, ClientRequests
<1>3. bootDone /\ InOrder
  BY <1>1 DEF RelayInv, Fresh
<1>4. NoMap \in Maps
  BY DEF NoMap, Maps
<1>5. colMap' \in Maps
  BY <1>4 DEF ForwardClient, ResetColumns, RelayInv, Shapes
<1>6. \/ toServer' = Append(toServer, request) /\ relay' = relay
      \/ toServer' = toServer /\ relay' = "closed"
  BY DEF ForwardClient, Forward
<1> HIDE DEF request
<1>7. CASE toServer' = Append(toServer, request) /\ relay' = relay
  <2>1. toServer' \in Seq(Requests) /\ toServer' \in Seq(ClientRequests)
    BY <1>2, <1>3, <1>7, AppendProperties DEF RelayInv, Shapes, InOrder
  <2>2. Shapes'
    BY <1>1, <1>2, <1>5, <2>1 DEF RelayInv, Shapes
  <2>3. InOrder'
    BY <1>1, <1>3, <2>1 DEF InOrder, Seen
  <2> QED BY <1>1, <1>3, <1>7, <2>2, <2>3 DEF RelayInv
<1>8. CASE toServer' = toServer /\ relay' = "closed"
  <2>1. Shapes'
    BY <1>1, <1>2, <1>5, <1>8 DEF RelayInv, Shapes
  <2>2. Transparent'
    BY <1>1, InvProves DEF Transparent
  <2> QED BY <1>8, <2>1, <2>2 DEF RelayInv
<1> QED BY <1>6, <1>7, <1>8

\* The server answers the next request.
LEMMA ServeStep ==
    ASSUME RelayInv, relay # "closed", Serve
    PROVE  RelayInv'
<1>1. /\ toServer # <<>> /\ toServer' = Tail(toServer)
      /\ UNCHANGED <<rules, enabled, colMap, fromClient, delivered, relay, bootDone>>
  BY DEF Serve, config, boot, anonymizer
<1>2. PICK as \in Answers(Head(toServer)) :
          /\ fromServer' = fromServer \o as
          /\ answers' = IF Head(toServer) = CatalogQuery THEN answers ELSE answers \o as
  BY DEF Serve
<1>3. Head(toServer) \in Requests /\ toServer' \in Seq(Requests)
  BY <1>1, HeadTailProperties DEF RelayInv, Shapes
<1>4. as \in Seq(Messages)
  BY <1>3, AnswersShape
<1>5. fromServer \in Seq(Messages) /\ answers \in Seq(Messages) /\ Seen \in Seq(Messages)
  BY SeenShape DEF RelayInv, Shapes, Seen
<1>6. Shapes'
  <2>1. fromServer' \in Seq(Messages) /\ answers' \in Seq(Messages)
    BY <1>2, <1>4, <1>5, ConcatProperties
  <2> QED BY <1>1, <1>3, <2>1 DEF RelayInv, Shapes
<1>7. CASE relay = "bootstrapping"
  <2>1. toServer = <<CatalogQuery>> /\ fromServer = <<>> /\ answers = Seen /\ ~bootDone
    BY <1>1, <1>7 DEF RelayInv, Alone
  <2>2. Head(toServer) = CatalogQuery /\ toServer' = <<>>
    BY <1>1, <2>1
  <2>3. fromServer' = as
    BY <1>2, <1>4, <2>1, ConcatEmptySeq
  <2>4. Alone'
    BY <1>1, <1>2, <2>1, <2>2, <2>3, CatalogAnswer DEF Alone, Seen
  <2> QED BY <1>1, <1>6, <1>7, <2>4 DEF RelayInv
<1>8. CASE relay = "relaying"
  <2>1. bootDone /\ InOrder
    BY <1>1, <1>8 DEF RelayInv, Fresh
  <2>2. Head(toServer) \in ClientRequests /\ toServer' \in Seq(ClientRequests)
    BY <1>1, <2>1, HeadTailProperties DEF InOrder
  <2>3. Head(toServer) # CatalogQuery
    BY <2>2 DEF ClientRequests, CatalogQuery, Request
  <2>4. answers' = Seen \o fromServer'
    <3>1. answers' = (Seen \o fromServer) \o as
      BY <1>2, <2>1, <2>3 DEF InOrder
    <3>2. \A s, t, u \in Seq(Messages) : (s \o t) \o u = s \o (t \o u)
      BY ConcatAssociative
    <3> QED BY <1>2, <1>4, <1>5, <3>1, <3>2
  <2>5. InOrder'
    BY <1>1, <2>2, <2>4 DEF InOrder, Seen
  <2> QED BY <1>1, <1>6, <1>8, <2>1, <2>5 DEF RelayInv
<1> QED BY <1>7, <1>8 DEF RelayInv

\* The next answer, and what the client receives of it.
LEMMA DeliverStep ==
    ASSUME RelayInv, bootDone, NEW kind, NextAnswer(kind), NEW map \in Maps,
           NEW raw \in BOOLEAN, Deliver(Head(fromServer), map, raw), colMap' \in Maps,
           UNCHANGED <<config, fromClient, toServer, answers, relay, bootDone>>
    PROVE  RelayInv'
<1> DEFINE d == [answer |-> Head(fromServer), map |-> map, raw |-> raw]
<1>1. /\ relay = "relaying" /\ fromServer # <<>> /\ fromServer' = Tail(fromServer)
      /\ delivered' = Append(delivered, d) /\ UNCHANGED <<rules, enabled>>
  BY DEF NextAnswer, Deliver, config
<1>2. Head(fromServer) \in Messages /\ fromServer' \in Seq(Messages)
  BY <1>1, HeadTailProperties DEF RelayInv, Shapes
<1>3. d \in Deliveries /\ d.answer = Head(fromServer)
  BY <1>2 DEF Deliveries
<1> HIDE DEF d
<1>4. Shapes'
  BY <1>1, <1>2, <1>3, AppendProperties DEF RelayInv, Shapes
<1>5. InOrder'
  <2>1. InOrder
    BY <1>1 DEF RelayInv
  <2>2. Seen \o fromServer = Seen' \o fromServer'
    BY <1>1, <1>3, DeliverKeeps DEF Seen, RelayInv, Shapes
  <2> QED BY <2>1, <2>2 DEF InOrder
<1> QED BY <1>1, <1>4, <1>5 DEF RelayInv

\* The first ReadyForQuery opens the session and sets off the bootstrap.
LEMMA FirstReadyStep ==
    ASSUME RelayInv, FirstReady
    PROVE  RelayInv'
<1> DEFINE d == [answer |-> ReadyForQuery, map |-> NoMap, raw |-> FALSE]
<1>1. /\ relay = "relaying" /\ fromServer' = Tail(fromServer)
      /\ delivered' = Append(delivered, d)
      /\ UNCHANGED <<rules, enabled, colMap, fromClient, answers>>
  BY DEF FirstReady, NextAnswer, Deliver, config, anonymizer
<1>2. Fresh
  BY <1>1 DEF RelayInv, FirstReady
<1>3. ReadyForQuery \in Messages
  BY DEF ReadyForQuery, Answer, Messages, ServerAnswers, RequestKinds
<1>4. d \in Deliveries /\ d.answer = ReadyForQuery
  BY <1>3 DEF Deliveries, NoMap, Maps
<1> HIDE DEF d
<1>5. fromServer' = <<>>
  BY <1>1, <1>2 DEF Fresh
<1>6. answers' = Seen'
  <2>1. Seen' = Append(AnswersOf(<<>>), ReadyForQuery)
    <3>1. <<>> \in Seq(Deliveries) /\ delivered' = Append(<<>>, d)
      BY <1>1, <1>2 DEF Fresh
    <3> QED BY <1>4, <3>1, SeenShape DEF Seen
  <2>2. AnswersOf(<<>>) = <<>>
    BY SeenShape, EmptySeq
  <2> QED BY <1>1, <1>2, <2>1, <2>2 DEF Fresh
<1>7. CatalogQuery \in Requests
  BY DEF CatalogQuery, Request, Requests, RequestKinds
<1>8. \/ toServer' = <<>> /\ relay' = "relaying" /\ bootDone'
      \/ toServer' = <<CatalogQuery>> /\ relay' = "bootstrapping" /\ ~bootDone'
  BY <1>1, <1>2 DEF FirstReady, Fresh
<1>9. Shapes'
  <2>1. toServer' \in {<<>>, <<CatalogQuery>>}
    BY <1>8
  <2>2. toServer' \in Seq(Requests)
    <3>1. <<>> \in Seq(Requests) /\ <<CatalogQuery>> \in Seq(Requests)
      BY <1>7
    <3> QED BY <2>1, <3>1
  <2>3. delivered' \in Seq(Deliveries)
    BY <1>1, <1>4, AppendProperties DEF RelayInv, Shapes
  <2>4. fromServer' \in Seq(Messages)
    BY <1>5
  <2> QED BY <1>1, <2>2, <2>3, <2>4 DEF RelayInv, Shapes
<1>10. Seen' \in Seq(Messages)
  BY <1>9, SeenShape DEF Shapes, Seen
<1>11. CASE toServer' = <<>> /\ relay' = "relaying" /\ bootDone'
  <2>1. InOrder'
    BY <1>5, <1>6, <1>10, <1>11, ConcatEmptySeq DEF InOrder
  <2> QED BY <1>9, <1>11, <2>1 DEF RelayInv
<1>12. CASE toServer' = <<CatalogQuery>> /\ relay' = "bootstrapping" /\ ~bootDone'
  BY <1>5, <1>6, <1>9, <1>12 DEF RelayInv, Alone
<1> QED BY <1>8, <1>11, <1>12

\* bootstrap_postgres_table_oid_map reads on until ReadyForQuery and keeps it all to itself.
LEMMA BootstrapStep ==
    ASSUME RelayInv, Bootstrap
    PROVE  RelayInv'
<1>1. /\ relay = "bootstrapping" /\ fromServer # <<>> /\ fromServer' = Tail(fromServer)
      /\ UNCHANGED <<rules, enabled, colMap, fromClient, toServer, answers, delivered>>
  BY DEF Bootstrap, config
<1>2. toServer = <<>> /\ ReadyIsLast(fromServer) /\ answers = Seen /\ ~bootDone
  BY <1>1 DEF RelayInv, Alone
<1>3. fromServer' \in Seq(Messages)
  BY <1>1, HeadTailProperties DEF RelayInv, Shapes
<1>4. Shapes' /\ Seen' = Seen /\ Seen \in Seq(Messages)
  BY <1>1, <1>3, SeenShape DEF RelayInv, Shapes, Seen
<1>5. CASE Head(fromServer).kind = "Z"
  <2>1. fromServer' = <<>>
    BY <1>1, <1>2, <1>5, ReadyTail DEF RelayInv, Shapes
  <2>2. relay' = "relaying" /\ bootDone'
    BY <1>5 DEF Bootstrap
  <2>3. InOrder'
    <3>1. Seen = Seen \o <<>>
      BY <1>4, ConcatEmptySeq
    <3>2. answers' = Seen' \o fromServer'
      BY <1>1, <1>2, <1>4, <2>1, <3>1
    <3>3. toServer' \in Seq(ClientRequests)
      BY <1>1, <1>2
    <3> QED BY <3>2, <3>3 DEF InOrder
  <2> QED BY <1>4, <2>2, <2>3 DEF RelayInv
<1>6. CASE Head(fromServer).kind # "Z"
  <2>1. ReadyIsLast(fromServer')
    BY <1>1, <1>2, <1>6, ReadyTail DEF RelayInv, Shapes
  <2>2. relay' = relay /\ bootDone' = bootDone
    BY <1>6 DEF Bootstrap
  <2>3. Alone'
    BY <1>1, <1>2, <1>4, <2>1, <2>2 DEF Alone
  <2> QED BY <1>1, <1>4, <2>2, <2>3 DEF RelayInv
<1> QED BY <1>5, <1>6

-----------------------------------------------------------------------------
(* Theorems *)

\* A session begins with the ReadyForQuery of its server.
LEMMA InitKeeps ==
    ASSUME RelayInit
    PROVE  RelayInv
<1> USE DEF RelayInit
<1>1. ReadyForQuery \in Messages
  BY DEF ReadyForQuery, Answer, Messages, ServerAnswers, RequestKinds
<1>2. NoMap \in Maps
  BY DEF NoMap, Maps
<1>3. Shapes
  BY <1>1, <1>2 DEF Shapes
<1>4. Fresh
  BY DEF Fresh
<1> QED BY <1>3, <1>4 DEF RelayInv

\* An arm of select! for what the server sends.
LEMMA UpstreamStep ==
    ASSUME RelayInv, Upstream
    PROVE  RelayInv'
<1>1. NoMap \in Maps /\ colMap \in Maps /\ rules \in Nat /\ enabled \in BOOLEAN
  BY DEF NoMap, Maps, RelayInv, Shapes
<1>2. CASE FirstReady
  BY <1>2, FirstReadyStep
<1>3. CASE LaterReady
  <2>1. Head(fromServer) = ReadyForQuery
    <3>1. fromServer # <<>> /\ Head(fromServer).kind = "Z"
      BY <1>3 DEF LaterReady, NextAnswer
    <3> QED BY <3>1, HeadTailProperties DEF RelayInv, Shapes, Messages
  <2>2. Deliver(Head(fromServer), NoMap, FALSE)
    BY <1>3, <2>1 DEF LaterReady
  <2> QED BY <1>1, <1>3, <2>2, DeliverStep DEF LaterReady, boot, anonymizer
<1>4. ASSUME NEW kind \in {"T", "D", "Other"}, NextAnswer(kind)
      PROVE  bootDone
  <2>1. Fresh => Head(fromServer).kind = "Z"
    BY DEF Fresh, ReadyForQuery, Answer
  <2> QED BY <1>4, <2>1 DEF NextAnswer, RelayInv
<1>5. CASE Description
  <2>1. Head(fromServer) \in ServerAnswers
    <3>1. fromServer # <<>>
      BY <1>5 DEF Description, NextAnswer
    <3> QED BY <3>1, HeadTailProperties DEF RelayInv, Shapes, Messages
  <2>2. colMap' \in Maps
    BY <1>1, <1>5, <2>1 DEF Description, Maps, ServerAnswers
  <2> QED BY <1>1, <1>4, <1>5, <2>2, DeliverStep DEF Description, boot
<1>6. CASE Row
  <2>1. (~enabled) \in BOOLEAN
    OBVIOUS
  <2> QED BY <1>1, <1>4, <1>6, <2>1, DeliverStep DEF Row, boot, anonymizer
<1>7. CASE Other
  BY <1>1, <1>4, <1>7, DeliverStep DEF Other, boot, anonymizer
<1> QED BY <1>2, <1>3, <1>5, <1>6, <1>7 DEF Upstream

\* What a client may send, PostgreSQL's own catalog query is not among.
LEMMA ClientSends ==
    ASSUME RelayInv,
           \/ SendSync
           \/ \E s \in Stmts : SendQuery(s) \/ SendParse(s) \/ SendExecute(s) \/ SendDescribe(s)
    PROVE  RelayInv'
<1>1. Sync \in ClientRequests
  BY DEF Sync, Request, ClientRequests, Requests, RequestKinds
<1>2. \A s \in Stmts, kind \in {"Query", "Parse", "Execute", "Describe"} :
          Request(kind, s) \in ClientRequests
  BY DEF Request, ClientRequests, Requests, RequestKinds
<1> QED BY <1>1, <1>2, SendStep DEF SendSync, SendQuery, SendParse, SendExecute, SendDescribe

\* Every step of the relay keeps the invariant.
LEMMA RelayKeeps ==
    ASSUME RelayInv, RelayNext
    PROVE  RelayInv'
<1>1. rules \in Nat /\ enabled \in BOOLEAN /\ colMap \in Maps
  BY DEF RelayInv, Shapes
<1>2. CASE ForwardClient  BY <1>2, ForwardStep
<1>3. CASE Upstream       BY <1>3, UpstreamStep
<1>4. CASE Bootstrap      BY <1>4, BootstrapStep
<1>5. CASE Close \/ Closed
  BY <1>1, <1>5, StaysPut DEF Close, Closed, relayVars, config, boot, anonymizer
<1>6. CASE Serve
  BY <1>6, ServeStep DEF Serve
<1>7. CASE EditRules
  BY <1>1, <1>7, StaysPut DEF EditRules, boot, anonymizer
<1>8. CASE ToggleMasking
  BY <1>1, <1>8, StaysPut DEF ToggleMasking, boot, anonymizer
<1> QED BY <1>2, <1>3, <1>4, <1>5, <1>6, <1>7, <1>8, ClientSends DEF RelayNext

\* A session that is still starting relays nothing.
LEMMA NextKeeps ==
    ASSUME RelayInv, [Next]_vars
    PROVE  RelayInv'
<1>1. rules \in Nat /\ enabled \in BOOLEAN /\ colMap \in Maps
  BY DEF RelayInv, Shapes
<1>2. CASE StartupStep
  BY <1>1, <1>2, StaysPut DEF StartupStep, config, boot, anonymizer
<1>3. CASE RelayStep
  BY <1>3, RelayKeeps DEF RelayStep
<1>4. CASE Ended \/ UNCHANGED vars
  BY <1>1, <1>4, StaysPut DEF Ended, vars, relayVars, config, boot, anonymizer
<1> QED BY <1>2, <1>3, <1>4 DEF Next

\* handle_postgres_protocol_inner, for any client, whatever it pipelines, any number of
\* messages and edits and a catalog of any size: the client sees the server's answers to
\* its own messages in order, none missing and none of the catalog exchange among them.
THEOREM RelayIsTransparent == Spec => []Transparent
<1>1. Init => RelayInv
  BY InitKeeps DEF Init
<1>2. RelayInv /\ [Next]_vars => RelayInv'
  BY NextKeeps
<1>3. RelayInv => Transparent
  BY InvProves
<1> QED BY <1>1, <1>2, <1>3, PTL DEF Spec

-----------------------------------------------------------------------------
(* By whose columns and which rules rows are masked: the inductive invariant *)

\* Rows of a simple query follow its description, or one another.
Simple(a) == a.kind = "D" /\ a.via = "Query"
Follows(a, b) == a.kind \in {"T", "D"} /\ a.via = "Query" /\ a.of = b.of
Chained(s) == \A i \in 1..(Len(s) - 1) : Simple(s[i + 1]) => Follows(s[i], s[i + 1])

\* The map is of the result set whose rows come next, or there is none.
MapFits ==
    /\ Chained(fromServer)
    /\ fromServer # <<>> /\ Simple(Head(fromServer)) =>
           colMap.stmt \in {Head(fromServer).of, NoStmt}

\* The catalog is there before anything is described, if it ever is.
CatalogFirst ==
    /\ ~bootDone => /\ colMap = NoMap
                    /\ \A i \in 1..Len(delivered) : delivered[i].answer.kind # "D"
    /\ bootDone /\ loaded = CatalogSize /\ colMap.stmt # NoStmt => colMap.provenance
    /\ bootDone \/ relay = "bootstrapping" => delivered # <<>>

\* A client that waits has one query under way at most; the map is of that one's
\* result set while its rows come, as it was for the row before.
LastIsRow == delivered # <<>> /\ delivered[Len(delivered)].answer.kind = "D"
Quiet     == relay = "relaying" => toServer = <<>> /\ fromServer = <<>>
OneQuery(s) == \E q \in ClientRequests : q.kind = "Query" /\ s = <<q>>

NoneUnderWay == outstanding = 0 /\ fromClient = <<>> /\ Quiet /\ ~LastIsRow
Asking       == outstanding = 1 /\ OneQuery(fromClient) /\ Quiet /\ ~LastIsRow
Asked ==
    /\ outstanding = 1 /\ relay = "relaying" /\ bootDone
    /\ fromClient = <<>> /\ OneQuery(toServer) /\ fromServer = <<>> /\ ~LastIsRow
Answering ==
    /\ outstanding = 1 /\ relay = "relaying" /\ bootDone
    /\ fromClient = <<>> /\ toServer = <<>> /\ ReadyIsLast(fromServer)
    /\ \A i \in 1..Len(fromServer) : fromServer[i].kind = "D" => Simple(fromServer[i])
    /\ Head(fromServer).kind = "D" => colMap.stmt = Head(fromServer).of
    /\ LastIsRow => delivered[Len(delivered)].map = colMap

OneAtATime ==
    /\ prepared = {}
    /\ delivered = <<>> => outstanding = 1
    /\ delivered # <<>> => NoneUnderWay \/ Asking \/ Asked \/ Answering

RowInv ==
    /\ RelayInv
    /\ RowsOwnRules
    /\ CatalogFirst
    /\ relay = "relaying" /\ bootDone => MapFits
    /\ Waits /\ relay # "closed" => OneAtATime

-----------------------------------------------------------------------------
(* Lemmas about sequences and answers *)

\* What is left of a chain is one.
LEMMA ChainTail ==
    ASSUME NEW s \in Seq(Messages), s # <<>>, Chained(s)
    PROVE  /\ Chained(Tail(s))
           /\ Tail(s) # <<>> /\ Simple(Head(Tail(s))) => Follows(Head(s), Head(Tail(s)))
<1>1. /\ Tail(s) \in Seq(Messages) /\ Len(s) \in Nat \ {0} /\ Len(Tail(s)) = Len(s) - 1
      /\ \A i \in 1..Len(Tail(s)) : Tail(s)[i] = s[i + 1]
      /\ Head(s) = s[1]
  BY HeadTailProperties, EmptySeq
<1>2. ASSUME NEW i \in 1..(Len(Tail(s)) - 1), Simple(Tail(s)[i + 1])
      PROVE  Follows(Tail(s)[i], Tail(s)[i + 1])
  <2>1. i + 1 \in 1..(Len(s) - 1) /\ Tail(s)[i] = s[i + 1] /\ Tail(s)[i + 1] = s[(i + 1) + 1]
    BY <1>1
  <2> QED BY <1>2, <2>1 DEF Chained
<1>3. ASSUME Tail(s) # <<>>, Simple(Head(Tail(s)))
      PROVE  Follows(Head(s), Head(Tail(s)))
  <2>1. Len(Tail(s)) \in Nat \ {0}
    BY <1>1, <1>3, EmptySeq
  <2>2. Head(Tail(s)) = s[1 + 1] /\ 1 \in 1..(Len(s) - 1)
    BY <1>1, <2>1
  <2> QED BY <1>1, <1>3, <2>2 DEF Chained
<1> QED BY <1>2, <1>3 DEF Chained

\* Another answer may be added to a chain: no answer begins with a row of a query.
LEMMA ChainConcat ==
    ASSUME NEW s \in Seq(Messages), NEW t \in Seq(Messages), Chained(s), Chained(t),
           t # <<>> => ~Simple(t[1])
    PROVE  Chained(s \o t)
<1>1. /\ Len(s) \in Nat /\ Len(t) \in Nat /\ Len(s \o t) = Len(s) + Len(t)
      /\ \A i \in 1..(Len(s) + Len(t)) :
            (s \o t)[i] = IF i <= Len(s) THEN s[i] ELSE t[i - Len(s)]
  BY ConcatProperties, LenProperties
<1>2. SUFFICES ASSUME NEW i \in 1..(Len(s \o t) - 1), Simple((s \o t)[i + 1])
               PROVE  Follows((s \o t)[i], (s \o t)[i + 1])
  BY DEF Chained
<1>3. CASE i + 1 <= Len(s)
  <2>1. (s \o t)[i] = s[i] /\ (s \o t)[i + 1] = s[i + 1] /\ i \in 1..(Len(s) - 1)
    BY <1>1, <1>3
  <2> QED BY <1>2, <2>1 DEF Chained
<1>4. CASE i = Len(s)
  <2>1. (s \o t)[i + 1] = t[1] /\ Len(t) # 0
    BY <1>1, <1>4
  <2> QED BY <1>2, <2>1
<1>5. CASE i > Len(s)
  <2>1. (s \o t)[i] = t[i - Len(s)] /\ (s \o t)[i + 1] = t[(i - Len(s)) + 1]
        /\ i - Len(s) \in 1..(Len(t) - 1)
    BY <1>1, <1>5
  <2> QED BY <1>2, <2>1 DEF Chained
<1> QED BY <1>1, <1>3, <1>4, <1>5

\* A sequence of one answer and its parts.
LEMMA OneAnswer ==
    ASSUME NEW a
    PROVE  Len(<<a>>) = 1 /\ <<a>>[1] = a /\ <<a>> # <<>> /\ Head(<<a>>) = a
  OBVIOUS

\* Likewise of two.
LEMMA TwoAnswers ==
    ASSUME NEW a, NEW b
    PROVE  /\ Len(<<a, b>>) = 2 /\ <<a, b>>[1] = a /\ <<a, b>>[2] = b
           /\ <<a, b>> # <<>> /\ Head(<<a, b>>) = a
  OBVIOUS

\* A query's description, its rows and its end, put together.
LEMMA FourAnswers ==
    ASSUME NEW a \in Messages, NEW b \in Messages, NEW c \in Messages, NEW d \in Messages,
           NEW as, as = <<a>> \o <<b, c>> \o <<d>>
    PROVE  /\ Len(as) = 4 /\ as # <<>> /\ Head(as) = a
           /\ as[1] = a /\ as[2] = b /\ as[3] = c /\ as[4] = d
<1> DEFINE x == <<a>>
           y == <<b, c>>
           z == <<d>>
<1>1. /\ x \in Seq(Messages) /\ Len(x) = 1 /\ x[1] = a
      /\ y \in Seq(Messages) /\ Len(y) = 2 /\ y[1] = b /\ y[2] = c
      /\ z \in Seq(Messages) /\ Len(z) = 1 /\ z[1] = d
  OBVIOUS
<1>2. as = (x \o y) \o z
  OBVIOUS
<1> HIDE DEF x, y, z
<1>3. /\ x \o y \in Seq(Messages) /\ Len(x \o y) = 3
      /\ \A i \in 1..3 : (x \o y)[i] = IF i <= 1 THEN x[i] ELSE y[i - 1]
  BY <1>1, ConcatProperties
<1>4. (x \o y)[1] = a /\ (x \o y)[2] = b /\ (x \o y)[3] = c
  BY <1>1, <1>3
<1> DEFINE w == x \o y
<1> HIDE DEF w
<1>5. /\ w \in Seq(Messages) /\ Len(w) = 3 /\ as = w \o z
      /\ w[1] = a /\ w[2] = b /\ w[3] = c
  BY <1>2, <1>3, <1>4 DEF w
<1>6. /\ as \in Seq(Messages) /\ Len(as) = 4
      /\ \A i \in 1..4 : as[i] = IF i <= 3 THEN w[i] ELSE z[i - 3]
  BY <1>1, <1>5, ConcatProperties
<1>7. as[1] = a /\ as[2] = b /\ as[3] = c /\ as[4] = d
  BY <1>1, <1>5, <1>6
<1>8. as # <<>> /\ Head(as) = as[1]
  BY <1>6, EmptySeq
<1> QED BY <1>6, <1>7, <1>8

\* The head of a concatenation.
LEMMA HeadOfConcat ==
    ASSUME NEW s \in Seq(Messages), NEW t \in Seq(Messages), t # <<>>
    PROVE  Head(s \o t) = IF s = <<>> THEN t[1] ELSE Head(s)
<1>1. CASE s = <<>>
  <2>1. s \o t = t
    BY <1>1, ConcatEmptySeq
  <2>2. Head(t) = t[1]
    OBVIOUS
  <2> QED BY <1>1, <2>1, <2>2
<1>2. CASE s # <<>>
  <2> DEFINE st == s \o t
  <2>1. Len(s) \in Nat \ {0} /\ Len(t) \in Nat
    BY <1>2, EmptySeq, LenProperties
  <2>2. /\ st \in Seq(Messages) /\ Len(st) = Len(s) + Len(t)
        /\ \A i \in 1..(Len(s) + Len(t)) : st[i] = IF i <= Len(s) THEN s[i] ELSE t[i - Len(s)]
    BY ConcatProperties
  <2> HIDE DEF st
  <2>3. 1 \in 1..(Len(s) + Len(t)) /\ 1 <= Len(s)
    BY <2>1
  <2>4. st[1] = s[1] /\ st # <<>>
    BY <2>1, <2>2, <2>3, EmptySeq
  <2>5. Head(st) = st[1] /\ Head(s) = s[1]
    BY <1>2, <2>2, <2>4
  <2> QED BY <1>2, <2>4, <2>5 DEF st
<1> QED BY <1>1, <1>2

\* The answers to a client's requests are such, and a query's end with ReadyForQuery.
LEMMA AnswersChained ==
    ASSUME NEW request \in ClientRequests, NEW as \in Answers(request)
    PROVE  /\ Chained(as) /\ as # <<>> /\ ~Simple(as[1])
           /\ request.kind = "Query" =>
                  /\ ReadyIsLast(as)
                  /\ \A i \in 1..Len(as) : as[i].kind = "D" => Simple(as[i])
                  /\ Head(as).kind # "D"
<1> DEFINE Of(kind) == Answer(kind, request.of, request.kind)
<1>1. /\ ReadyForQuery.kind = "Z" /\ ReadyForQuery \in Messages
      /\ \A kind \in {"T", "D", "Other"} :
            /\ Of(kind).kind = kind /\ Of(kind).of = request.of
            /\ Of(kind).via = request.kind /\ Of(kind) \in Messages
  BY DEF Answer, ReadyForQuery, Messages, ServerAnswers, ClientRequests, Requests,
         RequestKinds
<1>2. CASE request.kind = "Query"
  <2>1. \/ as = <<Of("T")>> \o <<Of("D"), Of("D")>> \o <<ReadyForQuery>>
        \/ as = <<Of("Other"), ReadyForQuery>>
    BY <1>2 DEF Answers
  <2> HIDE DEF Of
  <2>2. CASE as = <<Of("T")>> \o <<Of("D"), Of("D")>> \o <<ReadyForQuery>>
    <3>1. /\ Len(as) = 4 /\ as # <<>> /\ Head(as) = Of("T")
          /\ as[1] = Of("T") /\ as[2] = Of("D") /\ as[3] = Of("D") /\ as[4] = ReadyForQuery
      BY <1>1, <2>2, FourAnswers
    <3>2. ~Simple(as[1]) /\ Head(as).kind # "D"
      BY <1>1, <3>1 DEF Simple
    <3>3. Chained(as)
      <4>1. Follows(as[1], as[2]) /\ Follows(as[2], as[3]) /\ ~Simple(as[4])
        BY <1>1, <1>2, <3>1 DEF Follows, Simple
      <4>2. ASSUME NEW i \in 1..(Len(as) - 1), Simple(as[i + 1])
            PROVE  Follows(as[i], as[i + 1])
        <5>1. \/ i = 1 /\ i + 1 = 2
              \/ i = 2 /\ i + 1 = 3
              \/ i = 3 /\ i + 1 = 4
          BY <3>1
        <5> QED BY <4>1, <4>2, <5>1, Zenon
      <4> QED BY <4>2 DEF Chained
    <3>4. ASSUME NEW i \in 1..Len(as)
          PROVE  /\ as[i].kind = "Z" <=> i = Len(as)
                 /\ as[i].kind = "D" => Simple(as[i])
      <4>1. i = 1 \/ i = 2 \/ i = 3 \/ i = 4
        BY <3>1
      <4>2. CASE i = 1 BY <1>1, <3>1, <4>2
      <4>3. CASE i = 2 BY <1>1, <1>2, <3>1, <4>3 DEF Simple
      <4>4. CASE i = 3 BY <1>1, <1>2, <3>1, <4>4 DEF Simple
      <4>5. CASE i = 4 BY <1>1, <3>1, <4>5
      <4> QED BY <4>1, <4>2, <4>3, <4>4, <4>5
    <3> QED BY <3>1, <3>2, <3>3, <3>4 DEF ReadyIsLast
  <2>3. CASE as = <<Of("Other"), ReadyForQuery>>
    <3>1. /\ Len(as) = 2 /\ as[1] = Of("Other") /\ as[2] = ReadyForQuery
          /\ Head(as) = as[1] /\ as # <<>>
      BY <2>3, TwoAnswers
    <3>2. ~Simple(as[1]) /\ ~Simple(as[2]) /\ Head(as).kind # "D"
      BY <1>1, <3>1 DEF Simple
    <3>3. ASSUME NEW i \in 1..Len(as)
          PROVE  (as[i].kind = "Z" <=> i = Len(as)) /\ as[i].kind # "D" /\ ~Simple(as[i])
      <4>1. i = 1 \/ i = 2
        BY <3>1
      <4>2. CASE i = 1 BY <1>1, <3>1, <3>2, <4>2
      <4>3. CASE i = 2 BY <1>1, <3>1, <3>2, <4>3
      <4> QED BY <4>1, <4>2, <4>3
    <3>4. Chained(as)
      <4>1. \A i \in 1..(Len(as) - 1) : i + 1 \in 1..Len(as)
        BY <3>1
      <4> QED BY <3>3, <4>1 DEF Chained
    <3> QED BY <3>1, <3>2, <3>3, <3>4 DEF ReadyIsLast
  <2> QED BY <2>1, <2>2, <2>3
<1>3. CASE request.kind \in {"Parse", "Describe", "Execute", "Sync"}
  <2>1. as \in {<<Of("Other")>>, <<Of("T")>>, <<Of("D"), Of("D")>>, <<ReadyForQuery>>}
    BY <1>3 DEF Answers
  <2> HIDE DEF Of
  <2>2. \A a \in {ReadyForQuery, Of("Other"), Of("T"), Of("D")} : ~Simple(a)
    BY <1>1, <1>3 DEF Simple
  <2>3. CASE \E a \in {ReadyForQuery, Of("Other"), Of("T")} : as = <<a>>
    <3>1. PICK a \in {ReadyForQuery, Of("Other"), Of("T")} : as = <<a>>
      BY <2>3
    <3>2. Len(as) = 1 /\ as[1] = a /\ as # <<>>
      BY <3>1, OneAnswer
    <3>3. ~Simple(as[1])
      BY <2>2, <3>1, <3>2
    <3>4. 1..(Len(as) - 1) = {}
      BY <3>2
    <3> QED BY <1>3, <3>2, <3>3, <3>4 DEF Chained
  <2>4. CASE as = <<Of("D"), Of("D")>>
    <3>1. Len(as) = 2 /\ as[1] = Of("D") /\ as[2] = Of("D") /\ as # <<>>
      BY <2>4, TwoAnswers
    <3>2. ~Simple(as[1]) /\ ~Simple(as[2])
      BY <2>2, <3>1
    <3>3. \A i \in 1..(Len(as) - 1) : i + 1 = 2
      BY <3>1
    <3> QED BY <1>3, <3>1, <3>2, <3>3 DEF Chained
  <2> QED BY <2>1, <2>3, <2>4
<1>4. request.kind \in {"Query", "Parse", "Describe", "Execute", "Sync"}
  BY DEF ClientRequests, Requests, RequestKinds
<1> QED BY <1>2, <1>3, <1>4

-----------------------------------------------------------------------------
(* What is claimed of the rows *)

\* Of the same rows the same is true.
LEMMA RulesStay ==
    ASSUME RowsOwnRules, UNCHANGED <<style, loaded, delivered>>
    PROVE  RowsOwnRules'
  BY DEF RowsOwnRules, SimpleRowsOwnColumns, RowsHaveTheirMap, OneRuleSetPerResult,
         CatalogBeforeRows, MaskedRows, DeliveredRows, Own, Waits

\* Of no rows all is true.
LEMMA NoRows ==
    ASSUME delivered' \in Seq(Deliveries),
           \A i \in 1..Len(delivered') : delivered'[i].answer.kind # "D"
    PROVE  RowsOwnRules'
<1>1. DeliveredRows' = {} /\ MaskedRows' = {}
  BY LenProperties DEF DeliveredRows, MaskedRows
<1> QED BY <1>1 DEF RowsOwnRules, SimpleRowsOwnColumns, RowsHaveTheirMap,
                    OneRuleSetPerResult, CatalogBeforeRows

\* A row that may follow those delivered.
Fits(d) ==
    d.answer.kind = "D" =>
        /\ ~d.raw /\ d.answer.via = "Query" => d.map.stmt \in {d.answer.of, NoStmt}
        /\ ~d.raw /\ Waits => d.map.stmt = d.answer.of
        /\ Waits /\ LastIsRow => delivered[Len(delivered)].map = d.map
        /\ loaded = CatalogSize /\ d.map.stmt # NoStmt => d.map.provenance

\* A row that fits is masked as claimed.
LEMMA RulesAppend ==
    ASSUME RowsOwnRules, delivered \in Seq(Deliveries), NEW d \in Deliveries, Fits(d),
           delivered' = Append(delivered, d), UNCHANGED <<style, loaded>>
    PROVE  RowsOwnRules'
<1> DEFINE n == Len(delivered)
<1>1. /\ n \in Nat /\ DOMAIN delivered = 1..n /\ DOMAIN delivered' = 1..(n + 1)
      /\ \A i \in 1..n : delivered'[i] = delivered[i]
      /\ delivered'[n + 1] = d
      /\ delivered # <<>> => n # 0
      /\ n # 0 => delivered # <<>>
  BY AppendProperties, LenProperties, EmptySeq
<1> HIDE DEF n
<1>2. Waits' <=> Waits
  BY DEF Waits
<1>3. \A i \in DeliveredRows' :
          \/ i \in 1..n /\ i \in DeliveredRows /\ delivered'[i] = delivered[i]
          \/ i = n + 1 /\ delivered'[i] = d /\ d.answer.kind = "D"
  <2>1. ASSUME NEW i \in 1..(n + 1)
        PROVE  i \in 1..n \/ i = n + 1
    BY <1>1
  <2> QED BY <1>1, <2>1 DEF DeliveredRows
<1>4. \A i \in MaskedRows' :
          \/ i \in MaskedRows /\ delivered'[i] = delivered[i]
          \/ delivered'[i] = d /\ d.answer.kind = "D" /\ ~d.raw
  BY <1>3 DEF MaskedRows
<1>5. SimpleRowsOwnColumns'
  BY <1>4 DEF SimpleRowsOwnColumns, RowsOwnRules, Fits, Own
<1>6. RowsHaveTheirMap'
  BY <1>2, <1>4 DEF RowsHaveTheirMap, RowsOwnRules, Fits, Own
<1>7. OneRuleSetPerResult'
  <2> SUFFICES ASSUME Waits, NEW i \in DeliveredRows', i + 1 \in DeliveredRows'
               PROVE  delivered'[i].map = delivered'[i + 1].map
    BY <1>2 DEF OneRuleSetPerResult
  <2>1. i \in 1..(n + 1) /\ i + 1 \in 1..(n + 1)
    BY <1>1 DEF DeliveredRows
  <2>2. CASE i + 1 \in 1..n
    <3>1. i \in 1..n /\ i # n + 1 /\ i + 1 # n + 1
      BY <1>1, <2>1, <2>2
    <3>2. i \in DeliveredRows /\ i + 1 \in DeliveredRows
      BY <1>3, <3>1
    <3> QED BY <1>1, <2>2, <3>1, <3>2 DEF OneRuleSetPerResult, RowsOwnRules
  <2>3. CASE i = n
    <3>1. i \in 1..n /\ i # n + 1
      BY <1>1, <2>1, <2>3
    <3>2. i \in DeliveredRows /\ d.answer.kind = "D"
      BY <1>1, <1>3, <2>3, <3>1
    <3>3. LastIsRow
      <4>1. delivered # <<>>
        BY <1>1, <2>3, <3>1
      <4>2. delivered[n].answer.kind = "D"
        BY <2>3, <3>2 DEF DeliveredRows
      <4> QED BY <4>1, <4>2 DEF LastIsRow, n
    <3>4. delivered[n].map = d.map
      BY <3>2, <3>3 DEF Fits, n
    <3> QED BY <1>1, <2>3, <3>1, <3>4
  <2>4. i + 1 \in 1..n \/ i = n
    BY <1>1, <2>1
  <2> QED BY <2>2, <2>3, <2>4
<1>8. CatalogBeforeRows'
  BY <1>3 DEF CatalogBeforeRows, RowsOwnRules, Fits
<1> QED BY <1>5, <1>6, <1>7, <1>8 DEF RowsOwnRules

-----------------------------------------------------------------------------
(* What each action keeps *)

\* Whatever does not touch the messages.
LEMMA RowsStay ==
    ASSUME RowInv, RelayInv', relay' \in {relay, "closed"},
           UNCHANGED <<style, outstanding, prepared, fromClient, toServer, fromServer,
                       delivered, bootDone, loaded, colMap>>
    PROVE  RowInv'
<1>1. RowsOwnRules'
  BY RulesStay DEF RowInv
<1>2. CatalogFirst'
  BY DEF RowInv, CatalogFirst
<1>3. CASE relay' = "closed"
  BY <1>1, <1>2, <1>3 DEF RowInv
<1>4. CASE relay' = relay
  BY <1>1, <1>2, <1>4 DEF RowInv, MapFits, Waits, OneAtATime, NoneUnderWay, Asking, Asked,
     Answering, Quiet, LastIsRow
<1> QED BY <1>3, <1>4

\* The client sends: one that waits, its next query.
LEMMA SendRows ==
    ASSUME RowInv, RelayInv', NEW request \in ClientRequests, NEW readies,
           Send(request, readies),
           Waits => request.kind = "Query" /\ readies = 1 /\ prepared' = prepared
    PROVE  RowInv'
<1>1. /\ relay # "closed" /\ delivered # <<>>
      /\ style.pipelined \/ outstanding = 0
      /\ outstanding' = outstanding + readies
      /\ fromClient' = Append(fromClient, request)
      /\ UNCHANGED <<style, toServer, fromServer, delivered, relay, bootDone, loaded, colMap>>
  BY DEF Send, config, boot, anonymizer
<1>2. RowsOwnRules'
  BY <1>1, RulesStay DEF RowInv
<1>3. CatalogFirst'
  BY <1>1 DEF RowInv, CatalogFirst
<1>4. relay' = "relaying" /\ bootDone' => MapFits'
  BY <1>1 DEF RowInv, MapFits
<1>5. ASSUME Waits
      PROVE  OneAtATime'
  <2>1. OneAtATime /\ outstanding = 0 /\ outstanding' = 1
    BY <1>1, <1>5 DEF RowInv, Waits
  <2>2. NoneUnderWay
    BY <1>1, <2>1 DEF OneAtATime, Asking, Asked, Answering
  <2>3. fromClient' = <<request>>
    BY <1>1, <2>2 DEF NoneUnderWay
  <2>4. Asking'
    BY <1>1, <1>5, <2>1, <2>2, <2>3 DEF Asking, NoneUnderWay, OneQuery, Quiet, LastIsRow
  <2> QED BY <1>1, <1>5, <2>1, <2>4 DEF OneAtATime
<1>6. Waits' => Waits
  BY <1>1 DEF Waits
<1> QED BY <1>2, <1>3, <1>4, <1>5, <1>6 DEF RowInv

\* The loop forwards what the client has sent: the query of one that waits goes up
\* while nothing is on its way down.
LEMMA ForwardRows ==
    ASSUME RowInv, RelayInv', ForwardClient
    PROVE  RowInv'
<1>1. /\ relay = "relaying" /\ fromClient # <<>> /\ fromClient' = Tail(fromClient)
      /\ UNCHANGED <<style, outstanding, prepared, fromServer, delivered, bootDone, loaded>>
  BY DEF ForwardClient, config, client, boot
<1>2. bootDone /\ MapFits
  BY <1>1 DEF RowInv, RelayInv, Fresh
<1>3. colMap' = colMap \/ colMap'.stmt = NoStmt
  BY DEF ForwardClient, ResetColumns, NoMap
<1>4. RowsOwnRules'
  BY <1>1, RulesStay DEF RowInv
<1>5. CatalogFirst'
  BY <1>1, <1>2, <1>3 DEF RowInv, CatalogFirst
<1>6. MapFits'
  BY <1>1, <1>2, <1>3 DEF MapFits
<1>7. ASSUME Waits
      PROVE  relay' # "closed" /\ OneAtATime'
  <2>1. OneAtATime /\ delivered # <<>>
    BY <1>1, <1>2, <1>7 DEF RowInv, CatalogFirst
  <2>2. Asking
    BY <1>1, <2>1 DEF OneAtATime, NoneUnderWay, Asked, Answering
  <2>3. PICK q \in ClientRequests : q.kind = "Query" /\ fromClient = <<q>>
    BY <2>2 DEF Asking, OneQuery
  <2>4. Head(fromClient) = q /\ fromClient' = <<>>
    BY <1>1, <2>3
  <2>5. toServer' = Append(toServer, q) /\ relay' = relay
    BY <2>3, <2>4 DEF ForwardClient, Decodes, Forward
  <2>6. toServer = <<>> /\ fromServer = <<>>
    BY <1>1, <2>2 DEF Asking, Quiet
  <2>7. toServer' = <<q>>
    BY <2>5, <2>6
  <2>8. Asked'
    BY <1>1, <1>2, <2>2, <2>3, <2>4, <2>5, <2>6, <2>7 DEF Asked, Asking, OneQuery, LastIsRow
  <2> QED BY <1>1, <2>1, <2>5, <2>8 DEF OneAtATime
<1>8. Waits' => Waits
  BY <1>1 DEF Waits
<1> QED BY <1>4, <1>5, <1>6, <1>7, <1>8 DEF RowInv

\* The server answers the next request.
LEMMA ServeRows ==
    ASSUME RowInv, RelayInv', relay # "closed", Serve
    PROVE  RowInv'
<1>1. /\ toServer # <<>> /\ toServer' = Tail(toServer)
      /\ UNCHANGED <<style, outstanding, prepared, fromClient, delivered, relay, bootDone,
                     loaded, colMap>>
  BY DEF Serve, config, client, boot, anonymizer
<1>2. PICK as \in Answers(Head(toServer)) : fromServer' = fromServer \o as
  BY DEF Serve
<1>3. RowsOwnRules' /\ CatalogFirst'
  BY <1>1, RulesStay DEF RowInv, CatalogFirst
<1>4. CASE relay = "bootstrapping"
  <2>1. OneAtATime /\ delivered # <<>> => NoneUnderWay \/ Asking
    BY <1>4 DEF OneAtATime, Asked, Answering
  <2>2. Waits' => OneAtATime'
    BY <1>1, <1>4, <2>1 DEF RowInv, Waits, OneAtATime, NoneUnderWay, Asking, Quiet, LastIsRow
  <2> QED BY <1>1, <1>3, <1>4, <2>2 DEF RowInv
<1>5. CASE relay = "relaying"
  <2>1. bootDone /\ MapFits /\ InOrder
    BY <1>1, <1>5 DEF RowInv, RelayInv, Fresh
  <2>2. Head(toServer) \in ClientRequests /\ Head(toServer) \in Requests
    BY <1>1, <2>1, HeadTailProperties DEF InOrder, ClientRequests
  <2>3. as \in Seq(Messages) /\ fromServer \in Seq(Messages)
    BY <2>2, AnswersShape DEF RowInv, RelayInv, Shapes
  <2>4. Chained(as) /\ as # <<>> /\ ~Simple(as[1])
    BY <2>2, AnswersChained
  <2>5. Chained(fromServer')
    BY <1>2, <2>1, <2>3, <2>4, ChainConcat DEF MapFits
  <2>6. Head(fromServer') = IF fromServer = <<>> THEN as[1] ELSE Head(fromServer)
    BY <1>2, <2>3, <2>4, HeadOfConcat
  <2>7. MapFits'
    BY <1>1, <2>1, <2>4, <2>5, <2>6 DEF MapFits
  <2>8. ASSUME Waits
        PROVE  OneAtATime'
    <3>1. OneAtATime /\ delivered # <<>>
      BY <1>5, <2>1, <2>8 DEF RowInv, CatalogFirst
    <3>2. Asked
      BY <1>1, <1>5, <3>1 DEF OneAtATime, NoneUnderWay, Asking, Answering, Quiet
    <3>3. PICK q \in ClientRequests : q.kind = "Query" /\ toServer = <<q>>
      BY <3>2 DEF Asked, OneQuery
    <3>4. Head(toServer) = q /\ toServer' = <<>>
      BY <1>1, <3>3
    <3>5. fromServer' = as
      BY <1>2, <2>3, <3>2, ConcatEmptySeq DEF Asked
    <3>6. /\ ReadyIsLast(as) /\ Head(as).kind # "D"
          /\ \A i \in 1..Len(as) : as[i].kind = "D" => Simple(as[i])
      BY <3>3, <3>4, AnswersChained
    <3>7. ~LastIsRow'
      BY <1>1, <3>2 DEF Asked, LastIsRow
    <3>8. Answering'
      BY <1>1, <3>2, <3>4, <3>5, <3>6, <3>7 DEF Answering, Asked
    <3> QED BY <1>1, <3>1, <3>8 DEF OneAtATime
  <2>9. Waits' => Waits
    BY <1>1 DEF Waits
  <2> QED BY <1>1, <1>3, <1>5, <2>7, <2>8, <2>9 DEF RowInv
<1> QED BY <1>4, <1>5 DEF RowInv, RelayInv

\* The next answer, and what the client receives of it.
LEMMA DeliverRows ==
    ASSUME RowInv, RelayInv', bootDone, NEW kind, NextAnswer(kind), NEW map \in Maps,
           NEW raw \in BOOLEAN, Deliver(Head(fromServer), map, raw),
           UNCHANGED <<style, prepared, fromClient, toServer, relay, bootDone, loaded>>,
           outstanding' = IF kind = "Z" THEN outstanding - 1 ELSE outstanding,
           kind = "D" => map = colMap,
           IF kind = "T"
           THEN /\ colMap'.stmt = Head(fromServer).of
                /\ loaded = CatalogSize => colMap'.provenance
           ELSE colMap' = colMap
    PROVE  RowInv'
<1> DEFINE h == Head(fromServer)
           d == [answer |-> h, map |-> map, raw |-> raw]
<1>1. /\ relay = "relaying" /\ fromServer # <<>> /\ fromServer' = Tail(fromServer)
      /\ h.kind = kind /\ delivered' = Append(delivered, d)
  BY DEF NextAnswer, Deliver
<1>2. /\ fromServer \in Seq(Messages) /\ h \in Messages
      /\ delivered \in Seq(Deliveries) /\ d \in Deliveries
  BY <1>1, HeadTailProperties DEF RowInv, RelayInv, Shapes, Deliveries
<1>3. d.answer = h /\ d.map = map /\ d.raw = raw
  OBVIOUS
<1> HIDE DEF h, d
<1>4. /\ MapFits /\ delivered # <<>> /\ CatalogFirst
      /\ Simple(h) => colMap.stmt \in {h.of, NoStmt}
  BY <1>1 DEF RowInv, CatalogFirst, MapFits, h
<1>5. LastIsRow' <=> kind = "D"
  <2>1. /\ delivered' # <<>> /\ Len(delivered') = Len(delivered) + 1
        /\ delivered'[Len(delivered) + 1] = d
    BY <1>1, <1>2, AppendProperties
  <2> QED BY <1>1, <1>3, <2>1 DEF LastIsRow
<1>6. delivered'[Len(delivered')].map = map
  BY <1>1, <1>2, <1>3, AppendProperties
<1>7. /\ Chained(fromServer')
      /\ fromServer' # <<>> /\ Simple(Head(fromServer')) => Follows(h, Head(fromServer'))
  BY <1>1, <1>2, <1>4, ChainTail DEF MapFits, h
<1>8. ASSUME Waits
      PROVE  OneAtATime /\ Answering
  <2>1. OneAtATime
    BY <1>1, <1>8 DEF RowInv
  <2> QED BY <1>1, <1>4, <2>1 DEF OneAtATime, NoneUnderWay, Asking, Asked, Quiet
<1>9. Fits(d)
  <2> SUFFICES ASSUME kind = "D"
               PROVE  /\ h.via = "Query" => map.stmt \in {h.of, NoStmt}
                      /\ Waits => map.stmt = h.of
                      /\ Waits /\ LastIsRow => delivered[Len(delivered)].map = map
                      /\ loaded = CatalogSize /\ map.stmt # NoStmt => map.provenance
    BY <1>1, <1>3 DEF Fits
  <2>1. map = colMap
    OBVIOUS
  <2>2. h.via = "Query" => map.stmt \in {h.of, NoStmt}
    BY <1>1, <1>4, <2>1 DEF Simple
  <2>3. Waits => map.stmt = h.of
    BY <1>1, <1>8, <2>1 DEF Answering, h
  <2>4. Waits /\ LastIsRow => delivered[Len(delivered)].map = map
    BY <1>8, <2>1 DEF Answering
  <2>5. loaded = CatalogSize /\ map.stmt # NoStmt => map.provenance
    BY <1>4, <2>1 DEF CatalogFirst
  <2> QED BY <2>2, <2>3, <2>4, <2>5
<1>10. RowsOwnRules'
  BY <1>1, <1>2, <1>9, RulesAppend DEF RowInv
<1>11. CatalogFirst'
  <2>1. delivered' # <<>>
    BY <1>1, <1>2, AppendProperties
  <2>2. loaded = CatalogSize /\ colMap'.stmt # NoStmt => colMap'.provenance
    BY <1>4 DEF CatalogFirst
  <2> QED BY <2>1, <2>2 DEF CatalogFirst
<1>12. MapFits'
  <2>1. ASSUME fromServer' # <<>>, Simple(Head(fromServer'))
        PROVE  colMap'.stmt \in {Head(fromServer').of, NoStmt}
    <3>1. h.kind \in {"T", "D"} /\ h.via = "Query" /\ h.of = Head(fromServer').of
      BY <1>7, <2>1 DEF Follows
    <3>2. CASE kind = "T"
      BY <3>1, <3>2 DEF h
    <3>3. CASE kind = "D"
      BY <1>1, <1>4, <3>1, <3>3 DEF Simple
    <3> QED BY <1>1, <3>1, <3>2, <3>3
  <2> QED BY <1>7, <2>1 DEF MapFits
<1>13. ASSUME Waits
       PROVE  OneAtATime'
  <2>1. delivered' # <<>>
    BY <1>1, <1>2, AppendProperties
  <2>2. CASE kind = "Z"
    <3>1. fromServer' = <<>>
      BY <1>1, <1>2, <1>8, <1>13, <2>2, ReadyTail DEF Answering, h
    <3>2. outstanding' = 0
      BY <1>8, <1>13, <2>2 DEF Answering
    <3>3. ~LastIsRow'
      BY <1>5, <2>2
    <3>4. NoneUnderWay'
      BY <1>8, <1>13, <3>1, <3>2, <3>3 DEF NoneUnderWay, Answering, Quiet
    <3> QED BY <1>8, <1>13, <2>1, <3>4 DEF OneAtATime
  <2>3. CASE kind # "Z"
    <3>1. ReadyIsLast(fromServer')
      BY <1>1, <1>2, <1>8, <1>13, <2>3, ReadyTail DEF Answering, h
    <3>2. \A i \in 1..Len(fromServer') : fromServer'[i].kind = "D" => Simple(fromServer'[i])
      <4>1. /\ Len(fromServer) \in Nat /\ Len(fromServer') = Len(fromServer) - 1
            /\ \A i \in 1..Len(fromServer') : fromServer'[i] = fromServer[i + 1]
        BY <1>1, <1>2, HeadTailProperties, LenProperties
      <4>2. \A i \in 1..Len(fromServer') : i + 1 \in 1..Len(fromServer)
        BY <4>1
      <4> QED BY <1>8, <1>13, <4>1, <4>2 DEF Answering
    <3>3. ASSUME Head(fromServer').kind = "D"
          PROVE  colMap'.stmt = Head(fromServer').of
      <4>1. fromServer' # <<>> /\ Head(fromServer') = fromServer'[1]
            /\ 1 \in 1..Len(fromServer')
        <5>1. fromServer' \in Seq(Messages) /\ fromServer' # <<>>
          BY <1>1, <1>2, <3>1, HeadTailProperties DEF ReadyIsLast
        <5> QED BY <5>1, EmptySeq
      <4>2. h.kind \in {"T", "D"} /\ h.of = Head(fromServer').of
        BY <1>7, <3>2, <3>3, <4>1 DEF Follows
      <4>3. CASE kind = "T"
        BY <4>2, <4>3 DEF h
      <4>4. CASE kind = "D"
        BY <1>1, <1>8, <1>13, <4>2, <4>4 DEF Answering, h
      <4> QED BY <1>1, <4>2, <4>3, <4>4
    <3>4. LastIsRow' => delivered'[Len(delivered')].map = colMap'
      BY <1>5, <1>6
    <3>5. Answering'
      BY <1>1, <1>8, <1>13, <2>3, <3>1, <3>2, <3>3, <3>4 DEF Answering
    <3> QED BY <1>8, <1>13, <2>1, <3>5 DEF OneAtATime
  <2> QED BY <2>2, <2>3
<1>14. Waits' => Waits
  BY DEF Waits
<1> QED BY <1>1, <1>10, <1>11, <1>12, <1>13, <1>14 DEF RowInv

\* The first ReadyForQuery opens the session, with nothing described yet.
LEMMA FirstReadyRows ==
    ASSUME RowInv, RelayInv', FirstReady
    PROVE  RowInv'
<1> DEFINE d == [answer |-> ReadyForQuery, map |-> NoMap, raw |-> FALSE]
<1>1. /\ relay = "relaying" /\ ~bootDone /\ fromServer' = Tail(fromServer)
      /\ delivered' = Append(delivered, d) /\ outstanding' = outstanding - 1
      /\ UNCHANGED <<style, prepared, fromClient, loaded, colMap>>
  BY DEF FirstReady, NextAnswer, Deliver, config, anonymizer
<1>2. Fresh /\ colMap = NoMap
  BY <1>1 DEF RowInv, RelayInv, CatalogFirst
<1>3. delivered' = <<d>> /\ fromServer' = <<>> /\ fromClient' = <<>>
  BY <1>1, <1>2 DEF Fresh
<1>4. /\ relay' \in {"relaying", "bootstrapping"}
      /\ relay' = "relaying" => toServer' = <<>>
  BY <1>1, <1>2 DEF FirstReady, Fresh
<1>5. /\ Len(delivered') = 1 /\ delivered' # <<>>
      /\ \A i \in 1..Len(delivered') : delivered'[i].answer.kind # "D"
  <2>1. d.answer.kind = "Z"
    BY DEF ReadyForQuery, Answer
  <2> HIDE DEF d
  <2>2. Len(delivered') = 1 /\ delivered' # <<>> /\ delivered'[1] = d
    BY <1>3, OneAnswer
  <2>3. \A i \in 1..Len(delivered') : i = 1
    BY <2>2
  <2> QED BY <2>1, <2>2, <2>3
<1> HIDE DEF d
<1>6. RowsOwnRules'
  <2>1. delivered' \in Seq(Deliveries)
    BY DEF RelayInv, Shapes
  <2> QED BY <1>5, <2>1, NoRows
<1>7. CatalogFirst'
  BY <1>1, <1>2, <1>5 DEF CatalogFirst, NoMap
<1>8. MapFits'
  <2>1. \A i \in 1..(Len(fromServer') - 1) : FALSE
    BY <1>3
  <2> QED BY <1>3, <2>1 DEF MapFits, Chained
<1>9. ASSUME Waits
      PROVE  OneAtATime'
  <2>1. prepared = {} /\ outstanding = 1
    BY <1>1, <1>2, <1>9 DEF RowInv, OneAtATime, Fresh
  <2>2. ~LastIsRow'
    BY <1>5 DEF LastIsRow
  <2>3. NoneUnderWay'
    BY <1>1, <1>3, <1>4, <2>1, <2>2 DEF NoneUnderWay, Quiet
  <2> QED BY <1>1, <1>5, <2>1, <2>3 DEF OneAtATime
<1>10. Waits' => Waits
  BY <1>1 DEF Waits
<1> QED BY <1>6, <1>7, <1>8, <1>9, <1>10 DEF RowInv

\* The bootstrap is over before the client is sent any row.
LEMMA BootstrapRows ==
    ASSUME RowInv, RelayInv', Bootstrap
    PROVE  RowInv'
<1>1. /\ relay = "bootstrapping" /\ fromServer # <<>> /\ fromServer' = Tail(fromServer)
      /\ UNCHANGED <<style, outstanding, prepared, fromClient, toServer, delivered, colMap>>
  BY DEF Bootstrap, config, client
<1>2. toServer = <<>> /\ ReadyIsLast(fromServer) /\ ~bootDone
  BY <1>1 DEF RowInv, RelayInv, Alone
<1>3. /\ colMap = NoMap /\ delivered # <<>> /\ delivered \in Seq(Deliveries)
      /\ \A i \in 1..Len(delivered) : delivered[i].answer.kind # "D"
  BY <1>1, <1>2 DEF RowInv, RelayInv, Shapes, CatalogFirst
<1>4. RowsOwnRules'
  BY <1>1, <1>3, NoRows
<1>5. CatalogFirst'
  BY <1>1, <1>3 DEF CatalogFirst, NoMap
<1>6. Waits => NoneUnderWay \/ Asking
  BY <1>1, <1>3 DEF RowInv, OneAtATime, Asked, Answering
<1>7. relay' = "relaying" => fromServer' = <<>>
  <2>1. relay' = "relaying" => Head(fromServer).kind = "Z"
    BY <1>1 DEF Bootstrap
  <2> QED BY <1>1, <1>2, <2>1, ReadyTail DEF RowInv, RelayInv, Shapes
<1>8. relay' \in {"relaying", "bootstrapping"}
  BY <1>1 DEF Bootstrap
<1>9. ASSUME Waits
      PROVE  OneAtATime'
  <2>1. prepared = {}
    BY <1>1, <1>9 DEF RowInv, OneAtATime
  <2>2. NoneUnderWay' \/ Asking'
    BY <1>1, <1>2, <1>6, <1>7, <1>9 DEF NoneUnderWay, Asking, Quiet, LastIsRow
  <2> QED BY <1>1, <1>3, <2>1, <2>2 DEF OneAtATime
<1>10. relay' = "relaying" => MapFits'
  <2>1. fromServer' = <<>> => \A i \in 1..(Len(fromServer') - 1) : FALSE
    OBVIOUS
  <2> QED BY <1>7, <2>1 DEF MapFits, Chained
<1>11. Waits' => Waits
  BY <1>1 DEF Waits
<1> QED BY <1>4, <1>5, <1>9, <1>10, <1>11 DEF RowInv

\* An arm of select! for what the server sends.
LEMMA UpstreamRows ==
    ASSUME RowInv, RelayInv', Upstream
    PROVE  RowInv'
<1>1. NoMap \in Maps /\ colMap \in Maps /\ enabled \in BOOLEAN
  BY DEF NoMap, Maps, RowInv, RelayInv, Shapes
<1>2. CASE FirstReady
  BY <1>2, FirstReadyRows
<1>3. ASSUME NEW kind \in {"T", "D", "Other"}, NextAnswer(kind)
      PROVE  bootDone
  <2>1. Fresh => Head(fromServer).kind = "Z"
    BY DEF Fresh, ReadyForQuery, Answer
  <2> QED BY <1>3, <2>1 DEF NextAnswer, RowInv, RelayInv
<1>4. CASE LaterReady
  <2>1. Head(fromServer) = ReadyForQuery
    <3>1. fromServer # <<>> /\ Head(fromServer).kind = "Z"
      BY <1>4 DEF LaterReady, NextAnswer
    <3> QED BY <3>1, HeadTailProperties DEF RowInv, RelayInv, Shapes, Messages
  <2>2. Deliver(Head(fromServer), NoMap, FALSE)
    BY <1>4, <2>1 DEF LaterReady
  <2>3. /\ bootDone /\ NextAnswer("Z") /\ outstanding' = outstanding - 1 /\ colMap' = colMap
        /\ UNCHANGED <<style, prepared, fromClient, toServer, relay, bootDone, loaded>>
    BY <1>4 DEF LaterReady, config, boot, anonymizer
  <2>4. /\ outstanding' = IF "Z" = "Z" THEN outstanding - 1 ELSE outstanding
        /\ "Z" = "D" => NoMap = colMap
        /\ IF "Z" = "T"
           THEN /\ colMap'.stmt = Head(fromServer).of
                /\ loaded = CatalogSize => colMap'.provenance
           ELSE colMap' = colMap
    BY <2>3
  <2> QED BY <1>1, <2>2, <2>3, <2>4, DeliverRows
<1>5. CASE Description
  <2>1. /\ NextAnswer("T") /\ Deliver(Head(fromServer), NoMap, FALSE)
        /\ colMap'.stmt = Head(fromServer).of
        /\ loaded = CatalogSize => colMap'.provenance
        /\ UNCHANGED <<style, outstanding, prepared, fromClient, toServer, relay, bootDone,
                       loaded>>
    BY <1>5 DEF Description, config, client, boot
  <2>2. /\ outstanding' = IF "T" = "Z" THEN outstanding - 1 ELSE outstanding
        /\ "T" = "D" => NoMap = colMap
        /\ IF "T" = "T"
           THEN /\ colMap'.stmt = Head(fromServer).of
                /\ loaded = CatalogSize => colMap'.provenance
           ELSE colMap' = colMap
    BY <2>1
  <2> QED BY <1>1, <1>3, <2>1, <2>2, DeliverRows
<1>6. CASE Row
  <2>1. /\ NextAnswer("D") /\ Deliver(Head(fromServer), colMap, ~enabled) /\ colMap' = colMap
        /\ UNCHANGED <<style, outstanding, prepared, fromClient, toServer, relay, bootDone,
                       loaded>>
    BY <1>6 DEF Row, config, client, boot, anonymizer
  <2>2. (~enabled) \in BOOLEAN
    OBVIOUS
  <2>3. /\ outstanding' = IF "D" = "Z" THEN outstanding - 1 ELSE outstanding
        /\ "D" = "D" => colMap = colMap
        /\ IF "D" = "T"
           THEN /\ colMap'.stmt = Head(fromServer).of
                /\ loaded = CatalogSize => colMap'.provenance
           ELSE colMap' = colMap
    BY <2>1
  <2> QED BY <1>1, <1>3, <2>1, <2>2, <2>3, DeliverRows
<1>7. CASE Other
  <2>1. /\ NextAnswer("Other") /\ Deliver(Head(fromServer), NoMap, FALSE) /\ colMap' = colMap
        /\ UNCHANGED <<style, outstanding, prepared, fromClient, toServer, relay, bootDone,
                       loaded>>
    BY <1>7 DEF Other, config, client, boot, anonymizer
  <2>2. /\ outstanding' = IF "Other" = "Z" THEN outstanding - 1 ELSE outstanding
        /\ "Other" = "D" => NoMap = colMap
        /\ IF "Other" = "T"
           THEN /\ colMap'.stmt = Head(fromServer).of
                /\ loaded = CatalogSize => colMap'.provenance
           ELSE colMap' = colMap
    BY <2>1
  <2> QED BY <1>1, <1>3, <2>1, <2>2, DeliverRows
<1> QED BY <1>2, <1>4, <1>5, <1>6, <1>7 DEF Upstream

\* A client that waits sends nothing but queries.
LEMMA ClientRows ==
    ASSUME RowInv, RelayInv',
           \/ SendSync
           \/ \E s \in Stmts : SendQuery(s) \/ SendParse(s) \/ SendExecute(s) \/ SendDescribe(s)
    PROVE  RowInv'
<1>1. CASE SendSync
  <2>1. Sync \in ClientRequests
    BY DEF Sync, Request, ClientRequests, Requests, RequestKinds
  <2>2. Send(Sync, 1) /\ ~Waits
    BY <1>1 DEF SendSync, Waits
  <2> QED BY <2>1, <2>2, SendRows
<1>2. ASSUME NEW s \in Stmts, SendQuery(s)
      PROVE  RowInv'
  <2>1. Request("Query", s) \in ClientRequests /\ Request("Query", s).kind = "Query"
    BY DEF Request, ClientRequests, Requests, RequestKinds
  <2>2. Send(Request("Query", s), 1) /\ prepared' = prepared
    BY <1>2 DEF SendQuery
  <2> QED BY <2>1, <2>2, SendRows
<1>3. ASSUME NEW s \in Stmts, SendParse(s) \/ SendExecute(s) \/ SendDescribe(s)
      PROVE  RowInv'
  <2>1. \A kind \in {"Parse", "Execute", "Describe"} : Request(kind, s) \in ClientRequests
    BY DEF Request, ClientRequests, Requests, RequestKinds
  <2>2. ~Waits
    <3>1. relay # "closed"
      BY <1>3 DEF SendParse, SendExecute, SendDescribe, Send
    <3>2. Waits => prepared = {}
      BY <3>1 DEF RowInv, OneAtATime
    <3> QED BY <1>3, <3>2 DEF SendParse, SendExecute, SendDescribe, Waits
  <2>3. \E kind \in {"Parse", "Execute", "Describe"} : Send(Request(kind, s), 0)
    BY <1>3 DEF SendParse, SendExecute, SendDescribe
  <2> QED BY <2>1, <2>2, <2>3, SendRows
<1> QED BY <1>1, <1>2, <1>3

-----------------------------------------------------------------------------
(* Theorems *)

\* At the start there is nothing to be masked.
LEMMA InitRows ==
    ASSUME Init
    PROVE  RowInv
<1>1. RelayInv
  BY InitKeeps DEF Init
<1>2. delivered = <<>> /\ ~bootDone /\ colMap = NoMap /\ outstanding = 1 /\ prepared = {}
      /\ relay = "relaying"
  BY DEF Init, RelayInit
<1>3. RowsOwnRules
  <2>1. DeliveredRows = {} /\ MaskedRows = {}
    BY <1>2 DEF DeliveredRows, MaskedRows
  <2> QED BY <2>1 DEF RowsOwnRules, SimpleRowsOwnColumns, RowsHaveTheirMap,
                      OneRuleSetPerResult, CatalogBeforeRows
<1>4. CatalogFirst
  BY <1>2 DEF CatalogFirst
<1>5. OneAtATime
  BY <1>2 DEF OneAtATime
<1> QED BY <1>1, <1>2, <1>3, <1>4, <1>5 DEF RowInv

\* Every step of a session keeps the invariant.
LEMMA NextRows ==
    ASSUME RowInv, [Next]_vars
    PROVE  RowInv'
<1>1. RelayInv'
  BY NextKeeps DEF RowInv
<1>2. CASE StartupStep
  BY <1>1, <1>2, RowsStay DEF StartupStep, config, client, boot, anonymizer
<1>3. CASE Ended \/ UNCHANGED vars
  BY <1>1, <1>3, RowsStay DEF Ended, vars, relayVars, config, client, boot, anonymizer
<1>4. CASE RelayStep
  <2>1. CASE ForwardClient  BY <1>1, <2>1, ForwardRows
  <2>2. CASE Upstream       BY <1>1, <2>2, UpstreamRows
  <2>3. CASE Bootstrap      BY <1>1, <2>3, BootstrapRows
  <2>4. CASE Close \/ Closed
    BY <1>1, <2>4, RowsStay DEF Close, Closed, relayVars, config, client, boot, anonymizer
  <2>5. CASE Serve
    BY <1>1, <2>5, ServeRows DEF Serve
  <2>6. CASE EditRules \/ ToggleMasking
    BY <1>1, <2>6, RowsStay DEF EditRules, ToggleMasking, client, boot, anonymizer
  <2> QED BY <1>1, <1>4, <2>1, <2>2, <2>3, <2>4, <2>5, <2>6, ClientRows DEF RelayStep, RelayNext
<1> QED BY <1>2, <1>3, <1>4 DEF Next

\* on_row_description and on_data_row, for any client, any number of messages, edits and
\* catalog rows: no row of a simple query is masked by the columns of another statement,
\* however requests are pipelined; a client that waits gets each row with the map of its
\* own description, and a result set under one version of the rules; and no row is
\* masked without provenance once the catalog has been loaded.
THEOREM RowsAreMaskedByTheirOwn == Spec => []RowsOwnRules
<1>1. Init => RowInv
  BY InitRows
<1>2. RowInv /\ [Next]_vars => RowInv'
  BY NextRows
<1>3. RowInv => RowsOwnRules
  BY DEF RowInv
<1> QED BY <1>1, <1>2, <1>3, PTL DEF Spec

-----------------------------------------------------------------------------
(* Types: the inductive invariant *)

\* How many of a sequence of messages are of some kinds.
Count(s, kinds) == Cardinality({i \in 1..Len(s) : s[i].kind \in kinds})

\* The requests that a ReadyForQuery answers.
Owing == {"Query", "Sync"}

\* The client awaits a ReadyForQuery for each of those it has sent that is on its way,
\* in one form or the other; the bootstrap has its own.
Outstanding ==
    /\ outstanding \in Nat /\ outstanding <= sent + 1
    /\ relay # "closed" =>
           outstanding = Count(fromClient, Owing)
                           + (IF relay = "bootstrapping" THEN 0
                              ELSE Count(toServer, Owing) + Count(fromServer, {"Z"}))

\* The bootstrap registers no more rows than the catalog has.
Loading ==
    /\ loaded \in 0..CatalogSize
    /\ relay = "relaying" /\ ~bootDone => loaded = 0
    /\ relay = "bootstrapping" =>
           IF toServer # <<>> THEN loaded = 0
                              ELSE loaded + Count(fromServer, {"D"}) <= CatalogSize

Limits ==
    /\ style \in Styles
    /\ edits \in 0..style.edits
    /\ sent \in 0..style.requests
    /\ prepared \in SUBSET Stmts
    /\ bootDone \in BOOLEAN
    /\ bootRules \in Nat

TypeInv == RelayInv /\ Outstanding /\ Loading /\ Limits

-----------------------------------------------------------------------------
(* Lemmas about counts *)

\* A count is a number.
LEMMA CountIs ==
    ASSUME NEW S, NEW s \in Seq(S), NEW kinds
    PROVE  Count(s, kinds) \in Nat
<1> DEFINE those == {i \in 1..Len(s) : s[i].kind \in kinds}
<1>1. Len(s) \in Nat
  BY LenProperties
<1>2. IsFiniteSet(1..Len(s)) /\ those \in SUBSET (1..Len(s))
  BY <1>1, FS_Interval
<1> HIDE DEF those
<1>3. IsFiniteSet(those)
  BY <1>2, FS_Subset
<1> QED BY <1>3, FS_CardinalityType DEF Count, those

\* Of nothing, and of one.
LEMMA CountNone ==
    ASSUME NEW kinds
    PROVE  Count(<<>>, kinds) = 0
<1>1. {i \in 1..Len(<<>>) : <<>>[i].kind \in kinds} = {}
  OBVIOUS
<1> QED BY <1>1, FS_EmptySet DEF Count

LEMMA CountOne ==
    ASSUME NEW x, NEW kinds
    PROVE  Count(<<x>>, kinds) = IF x.kind \in kinds THEN 1 ELSE 0
<1> DEFINE those == {i \in 1..Len(<<x>>) : <<x>>[i].kind \in kinds}
<1>1. x.kind \in kinds => those = {1}
  OBVIOUS
<1>2. x.kind \notin kinds => those = {}
  OBVIOUS
<1> HIDE DEF those
<1> QED BY <1>1, <1>2, FS_EmptySet, FS_Singleton DEF Count, those

\* Of two after one another, the sum.
LEMMA CountConcat ==
    ASSUME NEW S, NEW s \in Seq(S), NEW t \in Seq(S), NEW kinds
    PROVE  Count(s \o t, kinds) = Count(s, kinds) + Count(t, kinds)
<1>1. PICK m, n, st : m = Len(s) /\ n = Len(t) /\ st = s \o t
  OBVIOUS
<1>2. /\ m \in Nat /\ n \in Nat /\ Len(st) = m + n
      /\ \A i \in 1..m : st[i] = s[i]
      /\ \A i \in 1..n : st[m + i] = t[i]
  <2>1. /\ m \in Nat /\ n \in Nat /\ Len(st) = m + n
        /\ \A i \in 1..(m + n) : st[i] = IF i <= m THEN s[i] ELSE t[i - m]
    BY <1>1, ConcatProperties, LenProperties
  <2>2. ASSUME NEW i \in 1..n PROVE st[m + i] = t[i]
    <3>1. m + i \in 1..(m + n) /\ ~(m + i <= m) /\ (m + i) - m = i
      BY <2>1
    <3> QED BY <2>1, <3>1
  <2> QED BY <2>1, <2>2
<1> DEFINE A == {i \in 1..m : s[i].kind \in kinds}
           B == {i \in 1..n : t[i].kind \in kinds}
           C == {i \in (m + 1)..(m + n) : st[i].kind \in kinds}
           f == [i \in B |-> m + i]
<1>3. IsFiniteSet(A) /\ IsFiniteSet(B) /\ A \cap C = {}
  <2>1. IsFiniteSet(1..m) /\ IsFiniteSet(1..n) /\ A \in SUBSET (1..m) /\ B \in SUBSET (1..n)
    BY <1>2, FS_Interval
  <2>2. IsFiniteSet(A) /\ IsFiniteSet(B)
    BY ONLY <2>1, FS_Subset
  <2>3. A \cap C = {}
    BY <1>2
  <2> QED BY <2>2, <2>3
<1>4. f \in Bijection(B, C)
  <2>1. f \in [B -> C]
    BY <1>2
  <2>2. \A i, j \in B : f[i] = f[j] => i = j
    BY <1>2
  <2>3. ASSUME NEW c \in C PROVE \E i \in B : f[i] = c
    <3>1. c - m \in 1..n /\ m + (c - m) = c
      BY <1>2
    <3>2. c - m \in B
      BY <1>2, <3>1
    <3> QED BY <3>1, <3>2
  <2> HIDE DEF f, B, C
  <2>4. f \in Injection(B, C)
    BY <2>1, <2>2 DEF Injection, IsInjective
  <2>5. f \in Surjection(B, C)
    BY <2>1, <2>3 DEF Surjection
  <2> QED BY <2>4, <2>5 DEF Bijection
<1>5. {i \in 1..Len(st) : st[i].kind \in kinds} = A \cup C
  BY <1>2
<1>6. /\ Count(st, kinds) = Cardinality(A \cup C)
      /\ Count(s, kinds) = Cardinality(A) /\ Count(t, kinds) = Cardinality(B)
  BY <1>1, <1>5 DEF Count
<1> HIDE DEF A, B, C, f
<1>7. IsFiniteSet(C) /\ Cardinality(C) = Cardinality(B)
  BY <1>3, <1>4, FS_Bijection DEF ExistsBijection
<1>8. Cardinality(A) \in Nat /\ Cardinality(B) \in Nat /\ Cardinality(A \cap C) = 0
  BY <1>3, FS_CardinalityType, FS_EmptySet
<1>9. Cardinality(A \cup C) = Cardinality(A) + Cardinality(C) - Cardinality(A \cap C)
  BY <1>3, <1>7, FS_Union
<1> QED BY <1>1, <1>6, <1>7, <1>8, <1>9

\* With one more at the end.
LEMMA CountAppend ==
    ASSUME NEW S, NEW s \in Seq(S), NEW x \in S, NEW kinds
    PROVE  Count(Append(s, x), kinds)
             = Count(s, kinds) + (IF x.kind \in kinds THEN 1 ELSE 0)
<1>1. Append(s, x) = s \o <<x>> /\ <<x>> \in Seq(S)
  BY AppendIsConcat
<1>2. Count(s \o <<x>>, kinds) = Count(s, kinds) + Count(<<x>>, kinds)
  BY <1>1, CountConcat
<1> QED BY <1>1, <1>2, CountOne

\* With one fewer at the beginning.
LEMMA CountTail ==
    ASSUME NEW S, NEW s \in Seq(S), s # <<>>, NEW kinds
    PROVE  Count(s, kinds)
             = (IF Head(s).kind \in kinds THEN 1 ELSE 0) + Count(Tail(s), kinds)
<1>1. PICK x, t : x = Head(s) /\ t = Tail(s)
  OBVIOUS
<1>2. x \in S /\ t \in Seq(S) /\ <<x>> \in Seq(S)
  BY <1>1, HeadTailProperties
<1>3. s = <<x>> \o t
  <2>1. /\ Len(s) \in Nat \ {0} /\ Len(t) = Len(s) - 1 /\ x = s[1]
        /\ \A i \in 1..Len(t) : t[i] = s[i + 1]
    BY <1>1, HeadTailProperties, EmptySeq
  <2>2. /\ <<x>> \o t \in Seq(S) /\ Len(<<x>> \o t) = Len(s)
        /\ \A i \in 1..Len(s) : (<<x>> \o t)[i] = IF i <= 1 THEN <<x>>[i] ELSE t[i - 1]
    BY <1>2, <2>1, ConcatProperties
  <2>3. \A i \in 1..Len(s) : (<<x>> \o t)[i] = s[i]
    BY <2>1, <2>2
  <2> QED BY <2>2, <2>3, SeqEqual
<1>4. Count(<<x>> \o t, kinds) = Count(<<x>>, kinds) + Count(t, kinds)
  BY <1>2, CountConcat
<1> QED BY <1>1, <1>3, <1>4, CountOne

\* One message, and two.
LEMMA OneAndTwo ==
    ASSUME NEW S, NEW x \in S, NEW y \in S
    PROVE  <<x>> \in Seq(S) /\ <<x, y>> \in Seq(S) /\ <<x>> \o <<y>> = <<x, y>>
<1>1. <<x>> \in Seq(S) /\ <<x, y>> \in Seq(S) /\ <<y>> \in Seq(S)
  OBVIOUS
<1>2. <<x>> \o <<y>> = <<x, y>>
  <2>1. /\ <<x>> \o <<y>> \in Seq(S) /\ Len(<<x>> \o <<y>>) = 2
        /\ (<<x>> \o <<y>>)[1] = x /\ (<<x>> \o <<y>>)[2] = y
    OBVIOUS
  <2>2. Len(<<x, y>>) = 2 /\ <<x, y>>[1] = x /\ <<x, y>>[2] = y
    OBVIOUS
  <2>3. \A i \in 1..2 : i = 1 \/ i = 2
    OBVIOUS
  <2>4. PICK a, b : a = <<x>> \o <<y>> /\ b = <<x, y>>
    OBVIOUS
  <2>5. a \in Seq(S) /\ b \in Seq(S) /\ Len(a) = Len(b)
        /\ \A i \in 1..Len(a) : a[i] = b[i]
    BY <1>1, <2>1, <2>2, <2>3, <2>4
  <2>6. a = b
    BY ONLY <2>5, SeqEqual
  <2> QED BY <2>4, <2>6
<1> QED BY <1>1, <1>2

LEMMA CountTwo ==
    ASSUME NEW x, NEW y, NEW kinds
    PROVE  Count(<<x, y>>, kinds) = Count(<<x>>, kinds) + Count(<<y>>, kinds)
<1>1. PICK S : x \in S /\ y \in S
  <2>1. x \in {x, y} /\ y \in {x, y}
    OBVIOUS
  <2> QED BY <2>1
<1>2. <<x>> \in Seq(S) /\ <<y>> \in Seq(S) /\ <<x>> \o <<y>> = <<x, y>>
  BY <1>1, OneAndTwo
<1>3. PICK a, b : a = <<x>> /\ b = <<y>>
  OBVIOUS
<1>4. a \in Seq(S) /\ b \in Seq(S)
  BY <1>2, <1>3
<1>5. Count(a \o b, kinds) = Count(a, kinds) + Count(b, kinds)
  BY ONLY <1>4, CountConcat
<1> QED BY <1>2, <1>3, <1>5

\* An answer has a ReadyForQuery for a request that awaits one, and no other.
LEMMA AnswersReady ==
    ASSUME NEW request \in ClientRequests, NEW as \in Answers(request)
    PROVE  Count(as, {"Z"}) = IF request.kind \in Owing THEN 1 ELSE 0
<1>1. PICK t, d, o, z : /\ t = Answer("T", request.of, request.kind)
                        /\ d = Answer("D", request.of, request.kind)
                        /\ o = Answer("Other", request.of, request.kind)
                        /\ z = ReadyForQuery
  OBVIOUS
<1>2. t.kind = "T" /\ d.kind = "D" /\ o.kind = "Other" /\ z.kind = "Z"
  BY <1>1 DEF Answer, ReadyForQuery
<1>3. request.kind \in RequestKinds /\ request.kind # "Catalog"
  BY DEF ClientRequests, Requests
<1>4. PICK S : t \in S /\ d \in S /\ z \in S
  <2>1. t \in {t, d, z} /\ d \in {t, d, z} /\ z \in {t, d, z}
    OBVIOUS
  <2> QED BY <2>1
<1>5. <<t>> \in Seq(S) /\ <<d, d>> \in Seq(S) /\ <<z>> \in Seq(S)
  BY <1>4, OneAndTwo
<1>6. /\ Count(<<t>>, {"Z"}) = 0 /\ Count(<<d>>, {"Z"}) = 0
      /\ Count(<<o>>, {"Z"}) = 0 /\ Count(<<z>>, {"Z"}) = 1
  BY <1>2, CountOne
<1>7. Count(<<d, d>>, {"Z"}) = 0 /\ Count(<<o, z>>, {"Z"}) = 1
  <2>1. /\ Count(<<d, d>>, {"Z"}) = Count(<<d>>, {"Z"}) + Count(<<d>>, {"Z"})
        /\ Count(<<o, z>>, {"Z"}) = Count(<<o>>, {"Z"}) + Count(<<z>>, {"Z"})
    BY CountTwo
  <2> QED BY <1>6, <2>1
<1>8. CASE request.kind = "Query"
  <2>1. as \in {<<t>> \o <<d, d>> \o <<z>>, <<o, z>>}
    BY <1>1, <1>8 DEF Answers
  <2>2. Count(<<t>> \o <<d, d>> \o <<z>>, {"Z"}) = 1
    <3>1. PICK ts, ds, zs, td : ts = <<t>> /\ ds = <<d, d>> /\ zs = <<z>> /\ td = ts \o ds
      OBVIOUS
    <3>2. ts \in Seq(S) /\ ds \in Seq(S) /\ zs \in Seq(S)
      BY <1>5, <3>1
    <3>3. td \in Seq(S)
      BY ONLY <3>1, <3>2, ConcatProperties
    <3>4. Count(ts \o ds, {"Z"}) = Count(ts, {"Z"}) + Count(ds, {"Z"})
      BY ONLY <3>2, CountConcat
    <3>5. Count(td \o zs, {"Z"}) = Count(td, {"Z"}) + Count(zs, {"Z"})
      BY ONLY <3>2, <3>3, CountConcat
    <3> QED BY <1>6, <1>7, <3>1, <3>4, <3>5
  <2> QED BY <1>7, <1>8, <2>1, <2>2 DEF Owing
<1>9. CASE request.kind = "Sync"
  <2>1. as = <<z>>
    BY <1>1, <1>9 DEF Answers
  <2> QED BY <1>6, <1>9, <2>1 DEF Owing
<1>10. CASE request.kind \in {"Parse", "Describe", "Execute"}
  <2>1. as \in {<<o>>, <<t>>, <<d, d>>}
    BY <1>1, <1>10 DEF Answers
  <2> QED BY <1>6, <1>7, <1>10, <2>1 DEF Owing
<1> QED BY <1>3, <1>8, <1>9, <1>10 DEF RequestKinds

\* The answer to the catalog query has no more rows than the catalog.
LEMMA CatalogRows ==
    ASSUME NEW as \in Answers(CatalogQuery)
    PROVE  Count(as, {"D"}) <= CatalogSize
<1>1. PICK t, d, o, z : /\ t = Answer("T", NoStmt, "Catalog") /\ d = Answer("D", NoStmt, "Catalog")
                        /\ o = Answer("Other", NoStmt, "Catalog") /\ z = ReadyForQuery
  OBVIOUS
<1>2. t.kind = "T" /\ d.kind = "D" /\ o.kind = "Other" /\ z.kind = "Z"
  BY <1>1 DEF Answer, ReadyForQuery
<1>3. PICK S : t \in S /\ d \in S /\ o \in S /\ z \in S
  <2>1. t \in {t, d, o, z} /\ d \in {t, d, o, z} /\ o \in {t, d, o, z} /\ z \in {t, d, o, z}
    OBVIOUS
  <2> QED BY <2>1
<1> DEFINE Catalog(n) == [i \in 1..n |-> d]
<1>4. ASSUME NEW n \in Nat
      PROVE  Catalog(n) \in Seq(S) /\ Count(Catalog(n), {"D"}) = n
  <2>1. PICK rows : rows = Catalog(n)
    OBVIOUS
  <2>2. rows \in Seq(S) /\ Len(rows) = n /\ \A i \in 1..n : rows[i] = d
    BY <1>3, <2>1
  <2>3. {i \in 1..Len(rows) : rows[i].kind \in {"D"}} = 1..n
    BY <1>2, <2>2
  <2>4. Cardinality(1..n) = n
    <3>1. Cardinality(1..n) = IF 1 > n THEN 0 ELSE n - 1 + 1
      BY FS_Interval
    <3> QED BY <3>1
  <2>5. Count(rows, {"D"}) = n
    BY <2>3, <2>4 DEF Count
  <2> QED BY <2>1, <2>2, <2>5
<1> HIDE DEF Catalog
<1>5. <<t>> \in Seq(S) /\ <<o, z>> \in Seq(S) /\ <<z>> \in Seq(S)
  BY <1>3, OneAndTwo
<1>6. Count(<<t>>, {"D"}) = 0 /\ Count(<<z>>, {"D"}) = 0 /\ Count(<<o>>, {"D"}) = 0
  BY <1>2, CountOne
<1>7. Count(<<o, z>>, {"D"}) = 0
  <2>1. Count(<<o, z>>, {"D"}) = Count(<<o>>, {"D"}) + Count(<<z>>, {"D"})
    BY CountTwo
  <2> QED BY <1>6, <2>1
<1>8. \/ as = <<t>> \o Catalog(CatalogSize) \o <<z>>
      \/ \E n \in 0..(CatalogSize - 1) : as = Catalog(n) \o <<o, z>>
  <2>1. CatalogQuery.kind = "Catalog" /\ CatalogQuery.of = NoStmt
    BY DEF CatalogQuery, Request
  <2> QED BY <1>1, <2>1 DEF Answers, Catalog
<1>9. CASE as = <<t>> \o Catalog(CatalogSize) \o <<z>>
  <2>1. PICK ts, zs, r, tr : ts = <<t>> /\ zs = <<z>> /\ r = Catalog(CatalogSize) /\ tr = ts \o r
    OBVIOUS
  <2>2. ts \in Seq(S) /\ zs \in Seq(S) /\ r \in Seq(S)
    BY <1>4, <1>5, <2>1, PgRelayAssumption
  <2>3. Count(ts, {"D"}) = 0 /\ Count(zs, {"D"}) = 0 /\ Count(r, {"D"}) = CatalogSize
        /\ CatalogSize \in Nat
    BY <1>4, <1>6, <2>1, PgRelayAssumption
  <2>4. tr \in Seq(S)
    BY ONLY <2>1, <2>2, ConcatProperties
  <2>5. Count(ts \o r, {"D"}) = Count(ts, {"D"}) + Count(r, {"D"})
    BY ONLY <2>2, CountConcat
  <2>6. Count(tr \o zs, {"D"}) = Count(tr, {"D"}) + Count(zs, {"D"})
    BY ONLY <2>2, <2>4, CountConcat
  <2> QED BY <1>9, <2>1, <2>3, <2>5, <2>6
<1>10. CASE \E n \in 0..(CatalogSize - 1) : as = Catalog(n) \o <<o, z>>
  <2>1. PICK n \in 0..(CatalogSize - 1) : as = Catalog(n) \o <<o, z>>
    BY <1>10
  <2>2. n \in Nat /\ n <= CatalogSize
    BY PgRelayAssumption
  <2>3. PICK r, oz : r = Catalog(n) /\ oz = <<o, z>>
    OBVIOUS
  <2>4. r \in Seq(S) /\ oz \in Seq(S) /\ Count(r, {"D"}) = n /\ Count(oz, {"D"}) = 0
    BY <1>4, <1>5, <1>7, <2>2, <2>3
  <2>5. Count(r \o oz, {"D"}) = Count(r, {"D"}) + Count(oz, {"D"})
    BY ONLY <2>4, CountConcat
  <2> QED BY <2>1, <2>2, <2>3, <2>4, <2>5
<1> QED BY <1>8, <1>9, <1>10

-----------------------------------------------------------------------------
(* What each action keeps of the counts *)

\* The counts are numbers.
LEMMA Numbers ==
    ASSUME TypeInv
    PROVE  /\ Count(fromClient, Owing) \in Nat /\ Count(toServer, Owing) \in Nat
           /\ Count(fromServer, {"Z"}) \in Nat /\ Count(fromServer, {"D"}) \in Nat
           /\ sent \in Nat /\ outstanding \in Nat /\ loaded \in Nat /\ CatalogSize \in Nat
<1>1. /\ fromClient \in Seq(ClientRequests) /\ toServer \in Seq(Requests)
      /\ fromServer \in Seq(Messages)
  BY DEF TypeInv, RelayInv, Shapes
<1>2. style.requests \in Nat
  BY PgRelayAssumption DEF TypeInv, Limits, ClientStyles
<1> QED BY <1>1, <1>2, CountIs, PgRelayAssumption DEF TypeInv, Outstanding, Loading, Limits

\* Whatever does not touch the messages.
LEMMA CountsStay ==
    ASSUME TypeInv, relay' \in {relay, "closed"},
           UNCHANGED <<outstanding, sent, fromClient, toServer, fromServer, bootDone, loaded>>
    PROVE  Outstanding' /\ Loading'
<1>1. relay # "closed" => outstanding = outstanding'
  OBVIOUS
<1>2. Outstanding'
  BY DEF TypeInv, Outstanding
<1>3. Loading'
  BY DEF TypeInv, Loading
<1> QED BY <1>2, <1>3

\* The client sends.
LEMMA SendCounts ==
    ASSUME TypeInv, NEW request \in ClientRequests, NEW readies,
           readies = IF request.kind \in Owing THEN 1 ELSE 0, Send(request, readies)
    PROVE  Outstanding' /\ Loading'
<1>1. /\ sent' = sent + 1 /\ outstanding' = outstanding + readies
      /\ fromClient' = Append(fromClient, request) /\ relay # "closed"
      /\ UNCHANGED <<toServer, fromServer, relay, bootDone, loaded>>
  BY DEF Send, boot, anonymizer
<1>2. Count(fromClient', Owing) = Count(fromClient, Owing) + readies
  BY <1>1, CountAppend DEF TypeInv, RelayInv, Shapes
<1>3. Outstanding'
  <2>1. PICK a, b, c : /\ a = Count(fromClient, Owing) /\ b = Count(toServer, Owing)
                       /\ c = Count(fromServer, {"Z"})
    OBVIOUS
  <2>2. a \in Nat /\ b \in Nat /\ c \in Nat /\ sent \in Nat /\ outstanding \in Nat
        /\ readies \in {0, 1} /\ outstanding <= sent + 1
    BY <2>1, Numbers DEF TypeInv, Outstanding
  <2>3. outstanding = a + (IF relay = "bootstrapping" THEN 0 ELSE b + c)
    BY <1>1, <2>1 DEF TypeInv, Outstanding
  <2>4. outstanding' = (a + readies) + (IF relay = "bootstrapping" THEN 0 ELSE b + c)
        /\ outstanding' \in Nat /\ outstanding' <= sent' + 1
    BY <1>1, <2>2, <2>3
  <2> QED BY <1>1, <1>2, <2>1, <2>4 DEF Outstanding
<1>4. Loading'
  BY <1>1 DEF TypeInv, Loading
<1> QED BY <1>3, <1>4

\* The loop forwards what the client has sent, or gives the session up.
LEMMA ForwardCounts ==
    ASSUME TypeInv, ForwardClient
    PROVE  Outstanding' /\ Loading'
<1>1. PICK request : request = Head(fromClient)
  OBVIOUS
<1>2. /\ relay = "relaying" /\ fromClient # <<>> /\ fromClient' = Tail(fromClient)
      /\ UNCHANGED <<outstanding, sent, fromServer, bootDone, loaded>>
      /\ \/ toServer' = Append(toServer, request) /\ relay' = relay
         \/ toServer' = toServer /\ relay' = "closed"
  BY <1>1 DEF ForwardClient, Forward, client, boot
<1>3. /\ fromClient \in Seq(ClientRequests) /\ toServer \in Seq(Requests)
      /\ request \in Requests
  <2>1. fromClient \in Seq(ClientRequests) /\ toServer \in Seq(Requests)
    BY DEF TypeInv, RelayInv, Shapes
  <2> QED BY <1>1, <1>2, <2>1, HeadTailProperties DEF ClientRequests
<1>4. PICK owes : owes = IF request.kind \in Owing THEN 1 ELSE 0
  OBVIOUS
<1>5. Count(fromClient, Owing) = owes + Count(fromClient', Owing)
      /\ Count(fromClient', Owing) \in Nat
  <2>1. fromClient' \in Seq(ClientRequests)
    BY <1>2, <1>3, HeadTailProperties
  <2> QED BY <1>1, <1>2, <1>3, <1>4, <2>1, CountTail, CountIs
<1>6. Count(Append(toServer, request), Owing) = Count(toServer, Owing) + owes
  BY <1>3, <1>4, CountAppend
<1>7. Outstanding'
  <2>1. PICK a, b, c : /\ a = Count(fromClient', Owing) /\ b = Count(toServer, Owing)
                       /\ c = Count(fromServer, {"Z"})
    OBVIOUS
  <2>2. a \in Nat /\ b \in Nat /\ c \in Nat /\ owes \in Nat
        /\ outstanding = (owes + a) + (b + c)
    BY <1>2, <1>4, <1>5, <2>1, Numbers DEF TypeInv, Outstanding
  <2>3. outstanding = a + ((b + owes) + c)
    BY ONLY <2>2
  <2>4. outstanding' \in Nat /\ outstanding' <= sent' + 1
    BY <1>2 DEF TypeInv, Outstanding
  <2>5. CASE toServer' = Append(toServer, request) /\ relay' = relay
    BY <1>2, <1>6, <2>1, <2>3, <2>4, <2>5 DEF Outstanding
  <2>6. CASE relay' = "closed"
    BY <2>4, <2>6 DEF Outstanding
  <2> QED BY <1>2, <2>5, <2>6
<1>8. Loading'
  BY <1>2 DEF TypeInv, Loading
<1> QED BY <1>7, <1>8

\* The server answers the next request.
LEMMA ServeCounts ==
    ASSUME TypeInv, Serve
    PROVE  Outstanding' /\ Loading'
<1>1. /\ relay # "closed" /\ toServer # <<>> /\ toServer' = Tail(toServer)
      /\ UNCHANGED <<outstanding, sent, fromClient, relay, bootDone, loaded>>
  BY DEF Serve, client, boot, anonymizer
<1>2. PICK request, as : /\ request = Head(toServer) /\ as \in Answers(request)
                         /\ fromServer' = fromServer \o as
  BY DEF Serve
<1>3. /\ toServer \in Seq(Requests) /\ fromServer \in Seq(Messages) /\ request \in Requests
  <2>1. toServer \in Seq(Requests) /\ fromServer \in Seq(Messages)
    BY DEF TypeInv, RelayInv, Shapes
  <2> QED BY <1>1, <1>2, <2>1, HeadTailProperties
<1>4. as \in Seq(Messages)
  BY <1>2, <1>3, AnswersShape
<1>5. CASE relay = "bootstrapping"
  <2>1. /\ toServer = <<CatalogQuery>> /\ fromServer = <<>> /\ loaded = 0
    BY <1>1, <1>5 DEF TypeInv, RelayInv, Alone, Loading
  <2>2. request = CatalogQuery /\ toServer' = <<>>
    BY <1>1, <1>2, <2>1
  <2>3. fromServer' = as
    BY <1>2, <1>4, <2>1, ConcatEmptySeq
  <2>4. Count(as, {"D"}) <= CatalogSize /\ Count(as, {"D"}) \in Nat
    BY <1>2, <1>4, <2>2, CatalogRows, CountIs
  <2>5. Loading'
    <3>1. relay' = "bootstrapping" /\ loaded' = 0 /\ toServer' = <<>>
      BY <1>1, <1>5, <2>1, <2>2
    <3>2. loaded' + Count(fromServer', {"D"}) <= CatalogSize
      <4>1. PICK rows : rows = Count(as, {"D"})
        OBVIOUS
      <4>2. rows \in Nat /\ rows <= CatalogSize
        BY <2>4, <4>1
      <4>3. 0 + rows = rows
        BY ONLY <4>2
      <4> QED BY <2>3, <3>1, <4>1, <4>2, <4>3
    <3> QED BY <3>1, <3>2, PgRelayAssumption DEF Loading
  <2>6. Outstanding'
    BY <1>1, <1>5 DEF TypeInv, Outstanding
  <2> QED BY <2>5, <2>6
<1>6. CASE relay = "relaying"
  <2>1. InOrder
    BY <1>1, <1>6 DEF TypeInv, RelayInv, Fresh
  <2>2. request \in ClientRequests
    BY <1>1, <1>2, <2>1, HeadTailProperties DEF InOrder
  <2>3. PICK owes : owes = IF request.kind \in Owing THEN 1 ELSE 0
    OBVIOUS
  <2>4. Count(as, {"Z"}) = owes
    BY <1>2, <2>2, <2>3, AnswersReady
  <2>5. Count(toServer, Owing) = owes + Count(toServer', Owing)
    BY <1>1, <1>2, <1>3, <2>3, CountTail
  <2>6. Count(fromServer', {"Z"}) = Count(fromServer, {"Z"}) + owes
    BY <1>2, <1>3, <1>4, <2>4, CountConcat
  <2>7. Count(toServer', Owing) \in Nat
    <3>1. toServer' \in Seq(Requests)
      BY <1>1, <1>3, HeadTailProperties
    <3> QED BY <3>1, CountIs
  <2>8. Outstanding'
    <3>1. PICK a, b, c : /\ a = Count(fromClient, Owing) /\ b = Count(toServer', Owing)
                         /\ c = Count(fromServer, {"Z"})
      OBVIOUS
    <3>2. a \in Nat /\ b \in Nat /\ c \in Nat /\ owes \in Nat
          /\ outstanding = a + ((owes + b) + c)
      BY <1>6, <2>3, <2>5, <2>7, <3>1, Numbers DEF TypeInv, Outstanding
    <3>3. outstanding = a + (b + (c + owes))
      BY ONLY <3>2
    <3> QED BY <1>1, <1>6, <2>6, <3>1, <3>3 DEF TypeInv, Outstanding
  <2>9. Loading'
    BY <1>1, <1>6 DEF TypeInv, Loading
  <2> QED BY <2>8, <2>9
<1> QED BY <1>1, <1>5, <1>6 DEF TypeInv, RelayInv

\* The next answer, and what it settles.
LEMMA DeliverCounts ==
    ASSUME TypeInv, bootDone, NEW kind, NextAnswer(kind),
           outstanding' = outstanding - (IF kind = "Z" THEN 1 ELSE 0),
           UNCHANGED <<sent, fromClient, toServer, relay, bootDone, loaded>>
    PROVE  Outstanding' /\ Loading'
<1>1. /\ relay = "relaying" /\ fromServer # <<>> /\ Head(fromServer).kind = kind
      /\ fromServer' = Tail(fromServer)
  BY DEF NextAnswer
<1>2. fromServer \in Seq(Messages) /\ fromServer' \in Seq(Messages)
  <2>1. fromServer \in Seq(Messages)
    BY DEF TypeInv, RelayInv, Shapes
  <2> QED BY <1>1, <2>1, HeadTailProperties
<1>3. PICK settles : settles = IF kind = "Z" THEN 1 ELSE 0
  OBVIOUS
<1>4. Count(fromServer, {"Z"}) = settles + Count(fromServer', {"Z"})
      /\ Count(fromServer', {"Z"}) \in Nat
  BY <1>1, <1>2, <1>3, CountTail, CountIs
<1>5. Outstanding'
  <2>1. PICK a, b, c : /\ a = Count(fromClient, Owing) /\ b = Count(toServer, Owing)
                       /\ c = Count(fromServer', {"Z"})
    OBVIOUS
  <2>2. /\ a \in Nat /\ b \in Nat /\ c \in Nat /\ settles \in Nat /\ sent \in Nat
        /\ outstanding = a + (b + (settles + c)) /\ outstanding' = outstanding - settles
        /\ outstanding <= sent + 1
    BY <1>1, <1>3, <1>4, <2>1, Numbers DEF TypeInv, Outstanding
  <2>3. outstanding' = a + (b + c) /\ outstanding' \in Nat /\ outstanding' <= sent + 1
    BY ONLY <2>2
  <2> QED BY <1>1, <2>1, <2>3 DEF Outstanding
<1>6. Loading'
  BY <1>1 DEF TypeInv, Loading
<1> QED BY <1>5, <1>6

\* The first ReadyForQuery settles what the client awaits from the start.
LEMMA FirstReadyCounts ==
    ASSUME TypeInv, FirstReady
    PROVE  Outstanding' /\ Loading'
<1>1. /\ relay = "relaying" /\ ~bootDone /\ fromServer' = Tail(fromServer)
      /\ outstanding' = outstanding - 1 /\ UNCHANGED <<sent, fromClient, loaded>>
      /\ \/ relay' = "relaying" /\ bootDone' /\ toServer' = toServer
         \/ relay' = "bootstrapping" /\ ~bootDone' /\ toServer' = Append(toServer, CatalogQuery)
  BY DEF FirstReady, NextAnswer, anonymizer
<1>2. Fresh /\ loaded = 0
  BY <1>1 DEF TypeInv, RelayInv, Loading
<1>3. fromClient = <<>> /\ toServer = <<>> /\ fromServer = <<ReadyForQuery>>
      /\ ReadyForQuery.kind = "Z"
  BY <1>2 DEF Fresh, ReadyForQuery, Answer
<1>4. fromServer' = <<>> /\ (toServer' = <<>> \/ toServer' = <<CatalogQuery>>)
  BY <1>1, <1>3
<1>5. Count(<<>>, Owing) = 0 /\ Count(<<>>, {"Z"}) = 0 /\ Count(<<ReadyForQuery>>, {"Z"}) = 1
  BY <1>3, CountNone, CountOne
<1>6. outstanding = 1 /\ sent \in Nat
  BY <1>1, <1>3, <1>5, Numbers DEF TypeInv, Outstanding
<1>7. Outstanding'
  BY <1>1, <1>3, <1>4, <1>5, <1>6 DEF Outstanding
<1>8. Loading'
  BY <1>1, <1>2, <1>3 DEF TypeInv, Loading
<1> QED BY <1>7, <1>8

\* bootstrap_postgres_table_oid_map registers the rows that there are.
LEMMA BootstrapCounts ==
    ASSUME TypeInv, Bootstrap
    PROVE  Outstanding' /\ Loading'
<1>1. /\ relay = "bootstrapping" /\ fromServer # <<>> /\ fromServer' = Tail(fromServer)
      /\ UNCHANGED <<outstanding, sent, fromClient, toServer>>
  BY DEF Bootstrap, client
<1>2. toServer = <<>> /\ ReadyIsLast(fromServer)
  BY <1>1 DEF TypeInv, RelayInv, Alone
<1>3. fromServer \in Seq(Messages) /\ fromServer' \in Seq(Messages)
  <2>1. fromServer \in Seq(Messages)
    BY DEF TypeInv, RelayInv, Shapes
  <2> QED BY <1>1, <2>1, HeadTailProperties
<1>4. PICK row : row = IF Head(fromServer).kind = "D" THEN 1 ELSE 0
  OBVIOUS
<1>5. Count(fromServer, {"D"}) = row + Count(fromServer', {"D"})
      /\ Count(fromServer', {"D"}) \in Nat
  BY <1>1, <1>3, <1>4, CountTail, CountIs
<1>6. loaded' = loaded + row /\ row \in Nat /\ loaded \in Nat /\ CatalogSize \in Nat
  BY <1>4, Numbers DEF Bootstrap
<1>7. loaded' \in 0..CatalogSize /\ loaded' + Count(fromServer', {"D"}) <= CatalogSize
  <2>1. PICK rest : rest = Count(fromServer', {"D"})
    OBVIOUS
  <2>2. rest \in Nat /\ loaded + (row + rest) <= CatalogSize
    BY <1>1, <1>2, <1>5, <2>1 DEF TypeInv, Loading
  <2>3. loaded' \in 0..CatalogSize /\ loaded' + rest <= CatalogSize
    BY ONLY <1>6, <2>2
  <2> QED BY <2>1, <2>3
<1>8. CASE Head(fromServer).kind = "Z"
  <2>1. relay' = "relaying" /\ bootDone' /\ fromServer' = <<>>
    BY <1>1, <1>2, <1>3, <1>8, ReadyTail DEF Bootstrap
  <2>2. Loading'
    BY <1>7, <2>1 DEF Loading
  <2>3. Outstanding'
    <3>1. Count(<<>>, Owing) = 0 /\ Count(<<>>, {"Z"}) = 0
      BY CountNone
    <3>2. outstanding = Count(fromClient, Owing) + 0 /\ Count(fromClient, Owing) \in Nat
      BY <1>1, Numbers DEF TypeInv, Outstanding
    <3>3. Count(toServer', Owing) = 0 /\ Count(fromServer', {"Z"}) = 0
      BY <1>1, <1>2, <2>1, <3>1
    <3> QED BY <1>1, <2>1, <3>2, <3>3 DEF TypeInv, Outstanding
  <2> QED BY <2>2, <2>3
<1>9. CASE Head(fromServer).kind # "Z"
  <2>1. relay' = "bootstrapping" /\ bootDone' = bootDone
    BY <1>1, <1>9 DEF Bootstrap
  <2>2. Loading'
    BY <1>1, <1>2, <1>7, <2>1 DEF Loading
  <2>3. Outstanding'
    BY <1>1, <2>1 DEF TypeInv, Outstanding
  <2> QED BY <2>2, <2>3
<1> QED BY <1>8, <1>9

\* An arm of select! for what the server sends.
LEMMA UpstreamCounts ==
    ASSUME TypeInv, Upstream
    PROVE  Outstanding' /\ Loading'
<1>1. CASE FirstReady
  BY <1>1, FirstReadyCounts
<1>2. CASE LaterReady
  BY <1>2, DeliverCounts DEF LaterReady, boot, anonymizer
<1>3. ASSUME NEW kind \in {"T", "D", "Other"}, NextAnswer(kind),
             UNCHANGED <<outstanding, sent, fromClient, toServer, relay, bootDone, loaded>>
      PROVE  Outstanding' /\ Loading'
  <2>1. bootDone
    <3>1. Fresh => Head(fromServer).kind = "Z"
      BY DEF Fresh, ReadyForQuery, Answer
    <3> QED BY <1>3, <3>1 DEF NextAnswer, TypeInv, RelayInv
  <2>2. outstanding \in Nat /\ kind # "Z"
    BY <1>3, Numbers
  <2>3. outstanding' = outstanding - (IF kind = "Z" THEN 1 ELSE 0)
    BY <1>3, <2>2
  <2> QED BY <1>3, <2>1, <2>3, DeliverCounts
<1>4. CASE Description
  BY <1>3, <1>4 DEF Description, client, boot
<1>5. CASE Row
  BY <1>3, <1>5 DEF Row, client, boot, anonymizer
<1>6. CASE Other
  BY <1>3, <1>6 DEF Other, client, boot, anonymizer
<1> QED BY <1>1, <1>2, <1>4, <1>5, <1>6 DEF Upstream

\* What a client may send.
LEMMA ClientCounts ==
    ASSUME TypeInv,
           \/ SendSync
           \/ \E s \in Stmts : SendQuery(s) \/ SendParse(s) \/ SendExecute(s) \/ SendDescribe(s)
    PROVE  Outstanding' /\ Loading'
<1>1. Sync \in ClientRequests /\ Sync.kind \in Owing
  BY DEF Sync, Request, ClientRequests, Requests, RequestKinds, Owing
<1>2. ASSUME NEW s \in Stmts, NEW kind \in {"Query", "Parse", "Execute", "Describe"}
      PROVE  Request(kind, s) \in ClientRequests /\ Request(kind, s).kind = kind
  BY DEF Request, ClientRequests, Requests, RequestKinds
<1>3. CASE SendSync
  BY <1>1, <1>3, SendCounts DEF SendSync
<1>4. ASSUME NEW s \in Stmts, SendQuery(s) PROVE Outstanding' /\ Loading'
  <2>1. Request("Query", s).kind \in Owing
    BY <1>2 DEF Owing
  <2> QED BY <1>2, <1>4, <2>1, SendCounts DEF SendQuery
<1>5. ASSUME NEW s \in Stmts, SendParse(s) \/ SendExecute(s) \/ SendDescribe(s)
      PROVE  Outstanding' /\ Loading'
  <2>1. PICK kind \in {"Parse", "Execute", "Describe"} : Send(Request(kind, s), 0)
    BY <1>5 DEF SendParse, SendExecute, SendDescribe
  <2>2. Request(kind, s) \in ClientRequests /\ Request(kind, s).kind \notin Owing
    BY <1>2, <2>1 DEF Owing
  <2> QED BY <2>1, <2>2, SendCounts
<1> QED BY <1>3, <1>4, <1>5

\* Every step of a session keeps the counts.
LEMMA NextCounts ==
    ASSUME TypeInv, [Next]_vars
    PROVE  Outstanding' /\ Loading'
<1>1. CASE StartupStep
  BY <1>1, CountsStay DEF StartupStep, client, boot, anonymizer
<1>2. CASE Ended \/ UNCHANGED vars
  BY <1>2, CountsStay DEF Ended, vars, relayVars, client, boot, anonymizer
<1>3. CASE RelayStep
  <2>1. CASE ForwardClient  BY <2>1, ForwardCounts
  <2>2. CASE Upstream       BY <2>2, UpstreamCounts
  <2>3. CASE Bootstrap      BY <2>3, BootstrapCounts
  <2>4. CASE Serve          BY <2>4, ServeCounts
  <2>5. CASE Close \/ Closed \/ EditRules \/ ToggleMasking
    BY <2>5, CountsStay DEF Close, Closed, EditRules, ToggleMasking, relayVars, client, boot,
       anonymizer
  <2> QED BY <1>3, <2>1, <2>2, <2>3, <2>4, <2>5, ClientCounts DEF RelayStep, RelayNext
<1> QED BY <1>1, <1>2, <1>3 DEF Next

-----------------------------------------------------------------------------
(* What each action keeps of the limits *)

\* The client sends no more than its style has it send.
LEMMA SendLimits ==
    ASSUME Limits, NEW request, NEW readies, Send(request, readies),
           prepared' \in SUBSET Stmts
    PROVE  Limits'
<1>1. style.requests \in Nat
  BY PgRelayAssumption DEF Limits, ClientStyles
<1>2. sent < style.requests /\ sent' = sent + 1 /\ UNCHANGED <<style, edits, boot>>
  BY DEF Send, config
<1> QED BY <1>1, <1>2 DEF Limits, boot

\* Every step of a session keeps the limits.
LEMMA NextLimits ==
    ASSUME RelayInv, Limits, [Next]_vars
    PROVE  Limits'
<1>1. ASSUME UNCHANGED <<style, edits, sent, prepared>>, bootRules' \in {bootRules, rules},
             bootDone' \in BOOLEAN
      PROVE  Limits'
  BY <1>1 DEF Limits, RelayInv, Shapes
<1>2. CASE StartupStep \/ Ended \/ UNCHANGED vars
  BY <1>1, <1>2 DEF StartupStep, Ended, vars, relayVars, config, client, boot, Limits
<1>3. CASE RelayStep
  <2>1. CASE ForwardClient \/ Bootstrap \/ Serve \/ Close \/ Closed
    BY <1>1, <2>1 DEF ForwardClient, Bootstrap, Serve, Close, Closed, relayVars, config,
       client, boot, Limits
  <2>2. CASE Upstream
    BY <1>1, <2>2 DEF Upstream, FirstReady, LaterReady, Description, Row, Other, config,
       client, boot, Limits
  <2>3. CASE EditRules \/ ToggleMasking
    <3>1. style.edits \in Nat
      BY PgRelayAssumption DEF Limits, ClientStyles
    <3>2. edits < style.edits /\ edits' = edits + 1
          /\ UNCHANGED <<style, sent, prepared, boot>>
      BY <2>3 DEF EditRules, ToggleMasking, client
    <3> QED BY <3>1, <3>2 DEF Limits, boot
  <2>4. CASE SendSync \/ \E s \in Stmts : SendQuery(s) \/ SendParse(s) \/ SendExecute(s)
                                          \/ SendDescribe(s)
    <3>1. prepared' \in SUBSET Stmts
      BY <2>4 DEF SendSync, SendQuery, SendParse, SendExecute, SendDescribe, Limits
    <3> QED BY <2>4, <3>1, SendLimits DEF SendSync, SendQuery, SendParse, SendExecute,
               SendDescribe
  <2> QED BY <1>3, <2>1, <2>2, <2>3, <2>4 DEF RelayStep, RelayNext
<1> QED BY <1>2, <1>3 DEF Next

-----------------------------------------------------------------------------
(* Theorem *)

\* The counts of a session that has not begun to relay.
LEMMA InitTypes ==
    ASSUME Init
    PROVE  TypeInv
<1>1. RelayInv
  BY InitKeeps DEF Init
<1>2. /\ outstanding = 1 /\ sent = 0 /\ fromClient = <<>> /\ toServer = <<>>
      /\ fromServer = <<ReadyForQuery>> /\ relay = "relaying" /\ ~bootDone /\ loaded = 0
      /\ style \in Styles /\ edits = 0 /\ prepared = {} /\ bootRules = 0
  BY DEF Init, RelayInit
<1>3. Outstanding
  <2>1. ReadyForQuery.kind = "Z"
    BY DEF ReadyForQuery, Answer
  <2>2. Count(<<>>, Owing) = 0 /\ Count(<<ReadyForQuery>>, {"Z"}) = 1
    BY <2>1, CountNone, CountOne
  <2> QED BY <1>2, <2>2 DEF Outstanding
<1>4. Loading
  BY <1>2, PgRelayAssumption DEF Loading
<1>5. Limits
  <2>1. style.edits \in Nat /\ style.requests \in Nat
    BY <1>2, PgRelayAssumption DEF ClientStyles
  <2>2. edits \in 0..style.edits /\ sent \in 0..style.requests
    BY <1>2, <2>1
  <2>3. bootDone \in BOOLEAN
    BY DEF Init, RelayInit
  <2>4. style \in Styles /\ prepared \in SUBSET Stmts /\ bootRules \in Nat
    BY <1>2
  <2> QED BY <2>2, <2>3, <2>4 DEF Limits
<1> QED BY <1>1, <1>3, <1>4, <1>5 DEF TypeInv

\* Every message between the two ends is one of the server's or of the client's.
LEMMA TypesHold ==
    ASSUME TypeInv
    PROVE  RelayTypeOK
<1>1. /\ ClientRequests \subseteq Requests /\ Messages \subseteq ServerAnswers
      /\ Deliveries \subseteq [answer : ServerAnswers, map : Maps, raw : BOOLEAN]
  BY DEF ClientRequests, Messages, Deliveries
<1>2. /\ fromClient \in Seq(Requests) /\ toServer \in Seq(Requests)
      /\ fromServer \in Seq(ServerAnswers) /\ answers \in Seq(ServerAnswers)
      /\ delivered \in Seq([answer : ServerAnswers, map : Maps, raw : BOOLEAN])
      /\ rules \in Nat /\ enabled \in BOOLEAN /\ colMap \in Maps
  BY <1>1, SeqMonotonic DEF TypeInv, RelayInv, Shapes
<1>3. outstanding \in 0..(style.requests + 1)
  <2>1. style.requests \in Nat /\ sent \in 0..style.requests
    BY PgRelayAssumption DEF TypeInv, Limits, ClientStyles
  <2> QED BY <2>1 DEF TypeInv, Outstanding
<1> QED BY <1>2, <1>3 DEF TypeInv, RelayInv, Loading, Limits, RelayTypeOK

\* A whole session, for any number of requests for TLS, of messages, of edits and of rows
\* of the catalog: all that it keeps is of its types; no ReadyForQuery comes that the client
\* does not await, and the bootstrap registers no more rows than the catalog has.
THEOREM SessionsAreTyped == Spec => []TypeOK
<1>1. Init => TypeInv
  BY InitTypes
<1>2. TypeInv /\ [Next]_vars => TypeInv'
  BY NextKeeps, NextCounts, NextLimits DEF TypeInv
<1>3. TypeInv => RelayTypeOK
  BY TypesHold
<1>4. StartupTypeOK /\ RelayTypeOK => TypeOK
  BY DEF TypeOK
<1> QED BY <1>1, <1>2, <1>3, <1>4, StartsAreTyped, PTL DEF Spec
=============================================================================
