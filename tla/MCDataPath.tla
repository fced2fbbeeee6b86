----------------------------- MODULE MCDataPath -----------------------------
(* Small instances of DataPath. *)
EXTENDS DataPath

E == Token("email")    P == Token("phone")    S == Token("ssn")
C == Token("credit_card")    W == Token("word")    L == Token("long")

\* Values that the properties tell apart.
MCCells == <<
    Text(<<E>>), Text(<<S>>), Text(<<W>>), Text(<<W, Gap, E>>), Text(<<P, Gap, P, Gap, P>>),
    Text(<<P, Gap, Gap, P>>), Text(<<E, Gap, P>>), Text(<<S, Gap, W>>),
    Cell("document", <<Leaf("string", <<E>>), Leaf("other", <<E>>), Leaf("string", <<W, Gap, P>>)>>),
    Cell("document", <<Leaf("string", <<W>>), Leaf("other", <<C>>)>>),
    Cell("document", <<Leaf("shadowed", <<W>>), Leaf("shadowed", <<E>>), Leaf("other", <<W>>),
                       Leaf("string", <<P>>), Leaf("other", <<L>>)>>),
    Cell("document", <<Leaf("shadowed", <<E>>), Leaf("string", <<W>>), Leaf("other", <<L>>)>>),
    Cell("scalar", <<Leaf("other", <<C>>)>>), Cell("scalar", <<Leaf("string", <<E>>)>>),
    Cell("array", <<Leaf("string", <<E>>), Leaf("string", <<W, Gap, P>>)>>),
    Cell("array", <<Leaf("string", <<W, Gap, E>>)>>),
    Cell("array", <<Leaf("string", <<Gap, E>>), Leaf("string", <<P>>), Leaf("string", <<E, Gap>>)>>),
    Cell("array", <<Leaf("string", <<Gap, E>>), Leaf("string", <<E, Gap>>),
                    Leaf("string", <<Gap, P>>), Leaf("string", <<P, Gap>>)>>),
    Cell("bytes", <<>>), Null, Text(<<>>)>>

Looks(enabled, types) == [enabled |-> enabled, types |-> types]
Policy(enabled, heuristics, rules) ==
    [enabled |-> enabled, heuristics |-> heuristics, rules |-> rules]

MCPolicies == <<
    Policy(TRUE, Looks(TRUE, PiiTypes), <<>>),
    Policy(TRUE, Looks(TRUE, {"phone", "ssn"}), <<Rule("t2", "c1", "hash")>>),
    Policy(TRUE, Looks(FALSE, PiiTypes), <<Rule("t1", "c1", "hash"), Rule(AnyTable, "c1", "json")>>),
    Policy(TRUE, Looks(TRUE, {"email"}), <<Rule(AnyTable, "c1", "json")>>),
    Policy(TRUE, Looks(FALSE, {}), <<Rule("t1", "c2", "ssn"), Rule(AnyTable, "c1", "email")>>),
    Policy(FALSE, Looks(TRUE, PiiTypes), <<Rule(AnyTable, "c1", "hash")>>)>>

\* The result's columns: c1 of t1, by its name or by an alias, and an expression.
Catalog == [tables |-> 7 :> {"t1"}, columns |-> <<7, 1>> :> "c1"]
NoCatalog == [tables |-> <<>>, columns |-> <<>>]
Origins == <<<<"t1", "c1">>, NoName>>

Job(protocol, side, catalog, policy, traffic, garbage) ==
    [protocol |-> protocol, side |-> side, catalog |-> catalog, policy |-> policy,
     traffic |-> traffic, garbage |-> garbage, origins |-> Origins]

PgResult(label, rows) ==
    <<PgMessage("RowDescription", <<Field(label, 7, 1), Field("c3", 0, 0)>>)>>
    \o [i \in DOMAIN rows |-> PgMessage("DataRow", rows[i])]
    \o <<PgMessage("Z", <<Unit("byte", 0)>>)>>

MySqlResult(label, rows) ==
    <<MySqlPacket("Generic", 1, <<Unit("count", 2)>>),
      MySqlPacket("Column", 2, Column(label, "c1", "x", "t1")),
      MySqlPacket("Column", 3, Column("c3", NoName, NoName, NoName))>>
    \o [i \in DOMAIN rows |-> MySqlPacket("ResultRow", (3 + i) % SeqIds, rows[i])]
    \o <<MySqlPacket("Generic", (4 + Len(rows)) % SeqIds, <<Unit("end", 0)>>)>>

Product(s, t, Op(_, _)) == FlattenSeq([i \in DOMAIN s |-> [j \in DOMAIN t |-> Op(s[i], t[j])]])

PgDown ==
    Product(MCCells, MCPolicies, LAMBDA cell, policy :
        Job("postgres", "server", Catalog, policy,
            PgResult("c1", <<<<cell, Text(<<W>>)>>>>), <<>>))
    \o Product(MCCells, SubSeq(MCPolicies, 2, 5), LAMBDA cell, policy :
        Job("postgres", "server", Catalog, policy,
            PgResult("alias", <<<<cell, Text(<<W, Gap, E>>)>>>>), <<>>))

MySqlDown ==
    Product(MCCells, MCPolicies, LAMBDA cell, policy :
        Job("mysql", "server", NoCatalog, policy,
            MySqlResult("alias", <<<<cell, Text(<<S>>)>>>>), <<>>))

\* Three rows that change in different ways, for a ring of two.
ManyRows ==
    LET rows == <<<<Text(<<E>>), Null>>, <<Text(<<S>>), Null>>, <<Text(<<P>>), Text(<<W>>)>>>>
    IN <<Job("postgres", "server", NoCatalog, MCPolicies[1], PgResult("c1", rows), <<>>),
         Job("mysql", "server", NoCatalog, MCPolicies[1], MySqlResult("c1", rows), <<>>)>>

\* All statements of up to n characters, and longer ones: a literal in a comment or an
\* identifier before one that stands by itself, doubled and escaped quotes, a dollar quote.
StatementsUpTo(n, chars) ==
    LET longer[k \in 1..n] == IF k = 1 THEN [i \in DOMAIN chars |-> <<chars[i]>>]
                              ELSE Product(longer[k - 1], chars, LAMBDA s, c : Append(s, c))
    IN FlattenSeq([k \in 1..n |-> longer[k]])
PgStatements ==
    StatementsUpTo(3, <<Quote, Double, Escape, Dollar, Note, Break, "x">>)
    \o <<<<Note, Quote, Break, Quote, "x", Quote>>, <<Double, Quote, Double, Quote, "x", Quote>>,
         <<Quote, Escape, Quote, Quote, "x", Quote>>, <<Quote, "x", Quote, Quote, "x", Quote, "x">>,
         <<Quote, Note, Quote, "x", Dollar, "x", Dollar>>, <<Note, Double, Break, Quote, "x", Quote>>>>
MySqlStatements ==
    StatementsUpTo(3, <<Quote, Double, Back, Escape, Note, Break, "x">>)
    \o <<<<Note, Quote, Break, Quote, "x", Quote>>, <<Back, Quote, Back, Double, "x", Double>>,
         <<Back, Double, Back, Quote, "x", Quote>>, <<Quote, Escape, Quote, "x", Quote>>,
         <<Double, Quote, Escape, Double, "x", Double>>, <<Note, "x", Break, Quote, "x", Quote>>,
         <<Quote, Back, Quote, Double, Note, Double, "x">>, <<Quote, Escape, Escape, Quote, "x">>>>

Up(protocol, traffic, garbage) ==
    Job(protocol, "client", NoCatalog, MCPolicies[1], traffic, garbage)

Startup == PgMessage("Startup", <<<<"user", "u">>>>)
PgUp ==
    [i \in DOMAIN PgStatements |->
        Up("postgres", <<Startup, PgMessage("Query", PgStatements[i])>>, <<>>)]
    \o <<Up("postgres",
            <<PgMessage("SSLRequest", <<>>), PgMessage("SSLRequest", <<>>), Startup,
              PgMessage("Parse", [statement |-> "s", query |-> <<Quote, "x", Quote, Quote, "x">>,
                                  types |-> <<Unit("param", 1), Unit("param", 2)>>]),
              PgMessage("B", <<Unit("byte", 1), Unit("byte", 2)>>), PgMessage("S", <<>>)>>,
            <<>>)>>

MySqlUp ==
    [i \in DOMAIN MySqlStatements |->
        Up("mysql", <<MySqlPacket("Query", 0, MySqlStatements[i])>>, <<>>)]
    \o <<Up("mysql",
            <<MySqlPacket("Query", 0, <<"x", "x", Quote, "x", Quote, "x", "x">>),
              MySqlPacket("Generic", 0, [i \in 1..(2 * Chunk) |-> Unit("byte", i)]),
              MySqlPacket("Generic", 0, [i \in 1..(Chunk + 1) |-> Unit("byte", i)])>>, <<>>)>>

\* Bytes that a codec must refuse.
PgGarbage ==
    <<<<Unit("type", "D"), Unit("len", 0)>>,
      <<Unit("type", "Z"), Unit("len", MaxFrame + 1)>>,
      Frame("D", <<>>), Frame("T", <<>>),
      Frame("D", <<Unit("count", 2), Unit("size", -1)>>),
      Frame("D", <<Unit("count", 1), Unit("size", -2), Unit("byte", 0)>>),
      Frame("D", <<Unit("count", 1), Unit("size", 2), Unit("byte", 0)>>),
      Frame("T", <<Unit("count", 1), Unit("chars", "c1")>>),
      Frame("T", <<Unit("count", 2)>> \o EncodeField(Field("c1", 7, 1))),
      Frame("T", <<Unit("count", 1), Unit("chars", "c1"), Nul>>),
      Frame("Q", <<Unit("chars", <<"x">>)>>),
      Frame("P", <<Unit("chars", "s"), Nul, Unit("chars", <<"x">>)>>),
      Frame("P", <<Unit("chars", "s"), Nul, Unit("chars", <<"x">>), Nul>>),
      Frame("P", <<Unit("chars", "s"), Nul, Unit("chars", <<"x">>), Nul, Unit("count", 1)>>)>>
StartupGarbage ==
    <<<<Unit("len", 1)>>, <<Unit("len", MaxStartup + 1)>>,
      <<Unit("len", 3), Unit("version", "3.0"), Unit("chars", "user")>>,
      <<Unit("len", 4), Unit("version", "3.0"), Unit("chars", "user"), Nul>>>>
MySqlGarbage ==
    <<Packet(<<Unit("size", 1), Unit("byte", 0)>>, 4),
      Packet(<<Unit("size", 3), Unit("byte", 0)>>, 4),
      Packet(<<Unit("null", 0), Unit("wide", 0)>>, 4)>>
Broken ==
    [i \in DOMAIN PgGarbage |->
        Job("postgres", "server", Catalog, MCPolicies[1],
            <<PgMessage("Z", <<Unit("byte", 0)>>)>>, PgGarbage[i])]
    \o [i \in DOMAIN StartupGarbage |->
           Up("postgres", <<PgMessage("SSLRequest", <<>>)>>, StartupGarbage[i])]
    \o [i \in DOMAIN MySqlGarbage |->
           Job("mysql", "server", NoCatalog, MCPolicies[1],
               SubSeq(MySqlResult("c1", <<>>), 1, 3), MySqlGarbage[i])]

MCJobs == PgDown \o MySqlDown \o ManyRows \o PgUp \o MySqlUp \o Broken
=============================================================================
