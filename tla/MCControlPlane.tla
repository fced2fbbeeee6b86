--------------------------- MODULE MCControlPlane ---------------------------
(* Small instances of ControlPlane. *)
EXTENDS ControlPlane

CONSTANTS h1, h2, h3, manual, watch, k1, k2

Nothing == <<>>
R(table, column, strategy) == MaskingRule(table, column, strategy)

Policy(rules, secret, credentials, limits, settings, auth) ==
    [rules |-> rules, enabled |-> TRUE, secret |-> secret, api |-> credentials,
     health |-> limits, settings |-> settings, auth |-> auth]
Plain(rules, secret)      == Policy(rules, secret, {}, NoSection, Nothing, Passthrough)
Guarded(credentials)      == Policy(<<>>, NoSecret, credentials, NoSection, Nothing, Passthrough)
Watchful(limits)          == Policy(<<>>, NoSecret, {}, limits, Nothing, Passthrough)
Set(settings, auth)       == Policy(<<>>, NoSecret, {}, NoSection, settings, auth)

Operator == [from |-> "host", key |-> "none", token |-> "none"]
Add(rules)            == [op |-> "add", rules |-> rules, caller |-> Operator]
ImportAll(rules)      == [op |-> "import", rules |-> rules, caller |-> Operator]
Drop(table, column)   == [op |-> "delete", table |-> table, column |-> column, caller |-> Operator]
Switch(value)         == [op |-> "update", enabled |-> value, caller |-> Operator]
By(caller, asked)     == [asked EXCEPT !.caller = caller]
Three(a, b, c)        == h1 :> a @@ h2 :> b @@ h3 :> c
Both(a, b)            == Three(a, b, NoRequest)
NoRequests            == {Both(NoRequest, NoRequest)}

PlainLaunch == [cli |-> Nothing, env |-> Nothing, protocol |-> "postgres"]

Quiet ==
    [files |-> {}, edits |-> {}, requests |-> NoRequests, envSecret |-> NoSecret,
     serial |-> TRUE, unhurried |-> FALSE, saves |-> 0, reloads |-> 0,
     hangups |-> 0, crashes |-> 0, launches |-> {PlainLaunch}, probes |-> 0, scans |-> {NoScan}]

-----------------------------------------------------------------------------
(* Clients of the API edit the policy, at once or one after the other, reload it and  *)
(* hang up, while the watcher reloads every change and the process crashes.           *)

DoubleRules ==
    <<R(NoTable, "c1", "email"), R("t1", "c1", "hash"), R(EmptyTable, "c2", "ssn"),
      R("t1", "c1", "ip")>>
Edits ==
    {Add(<<R("t1", "c1", "email")>>), Add(<<R(EmptyTable, "c1", "hash")>>),
     Add(<<R("t1", "c2", "magic")>>),
     ImportAll(<<R("t1", "c2", "email"), R("t1", "c1", "ssn"), R("t1", "c2", "hash")>>),
     Drop(NoTable, "c1"), Drop("t1", "c1"), Drop(EmptyTable, "c2"),
     Switch(<<FALSE>>), Switch(<<>>)}

EditScenes ==
    {[Quiet EXCEPT !.files = {Plain(DoubleRules, k1)},
                   !.requests = {Both(a, Drop(NoTable, "c1")) : a \in Edits}],
     [Quiet EXCEPT !.files = {Plain(<<R("t1", "c1", "hash")>>, k1)},
                   !.requests = {Both(Switch(<<FALSE>>), Add(<<R("t1", "c2", "ssn")>>))},
                   !.envSecret = k2, !.reloads = 1, !.hangups = 1, !.crashes = 1],
     [Quiet EXCEPT !.files = {Plain(<<>>, NoSecret)},
                   !.requests = {Three(Add(<<R("t1", "c1", "email")>>), Add(<<R("t1", "c2", "ssn")>>),
                                       Switch(<<FALSE>>))}],
     [Quiet EXCEPT !.files = {Plain(<<R("t1", "c1", "hash")>>, k1)},
                   !.requests = {Both(Add(<<R("t1", "c1", "email")>>), Drop(NoTable, "c1")),
                                 Both(Add(<<R("t1", "c1", "email")>>), Switch(<<FALSE>>))},
                   !.serial = FALSE, !.hangups = 1],
     [Quiet EXCEPT !.files = {Plain(<<>>, k1)}, !.edits = {Plain(<<>>, k2)},
                   !.requests = {Both(Add(<<R("t1", "c1", "email")>>), NoRequest)},
                   !.serial = FALSE, !.saves = 1, !.reloads = 1]}

-----------------------------------------------------------------------------
(* An editor replaces the file and leaves the watcher its second. *)

ReloadScenes ==
    {[Quiet EXCEPT !.files = {Plain(<<>>, k1), Plain(<<>>, NoSecret)},
                   !.edits = {Plain(<<>>, k1), Plain(<<R("t1", "c1", "hash")>>, k2),
                              Plain(<<>>, NoSecret)},
                   !.unhurried = TRUE, !.saves = 2, !.crashes = 1]}

-----------------------------------------------------------------------------
(* The upstream comes and goes, while the thresholds are edited. *)

HealthScenes ==
    {[Quiet EXCEPT !.files = {Watchful(NoSection), Watchful(Settings(TRUE, 2, 2)),
                              Watchful(Settings(TRUE, 1, 3)), Watchful(Settings(FALSE, 1, 1))},
                   !.edits = {Watchful(Settings(TRUE, 2, 2)), Watchful(Settings(TRUE, 3, 0)),
                              Watchful(Settings(FALSE, 3, 1)), Watchful(Settings(TRUE, 0, 1))},
                   !.saves = 1, !.probes = 6]}

-----------------------------------------------------------------------------
(* Callers of every kind, and a policy that loses its credentials. *)

Network(k, t) == [from |-> "network", key |-> k, token |-> t]
Open == [PlainLaunch EXCEPT !.env = "apiBind" :> "everywhere"]
AccessScenes ==
    {[Quiet EXCEPT !.files = {Guarded({}), Guarded({"key"}), Guarded({"token"}),
                              Guarded({"key", "token"})},
                   !.edits = {Guarded({}), Guarded({"token"})},
                   !.requests = {Both(By(a, Switch(<<>>)), NoRequest) :
                                    a \in Callers},
                   !.launches = {PlainLaunch, Open,
                                 [Open EXCEPT !.cli = "apiBind" :> "loopback"],
                                 [PlainLaunch EXCEPT !.cli = "apiEnabled" :> "off"]},
                   !.saves = 1, !.crashes = 1]}

-----------------------------------------------------------------------------
(* Where settings and credentials come from. *)

Sources(s, values) == {Nothing} \cup {s :> v : v \in values}
Complete1 == "clientUser" :> "u" @@ "upstreamUser" :> "u"
Auths ==
    {[files |-> f, inline |-> Complete1 @@ i] :
        f \in Sources("clientPassword", {"p", EmptyValue, Invalid}),
        i \in Sources("clientPassword", {"p", EmptyValue})}
    \cup {[files |-> "clientPassword" :> "p" @@ f, inline |-> i] :
        f \in Sources("rsaKey", {"p", Invalid}) \cup Sources("upstreamPassword", {EmptyValue, Invalid}),
        i \in {Complete1, "clientUser" :> "u", "clientUser" :> EmptyValue @@ Complete1,
               "clientPlugin" :> Invalid @@ Complete1}}
LaunchScenes ==
    {[Quiet EXCEPT !.files = {Set(f, Passthrough) : f \in Sources("apiBind", {"everywhere", Invalid})},
                   !.launches = {[cli |-> c, env |-> e, protocol |-> "postgres"] :
                                    c \in Sources("apiBind", {"loopback", "everywhere"}),
                                    e \in Sources("apiBind", {"loopback", "everywhere", Invalid})
                                            \cup Sources("port", {"p", Invalid})},
                   !.requests = {Both(By(Network("none", "none"), Switch(<<FALSE>>)), NoRequest)}],
     [Quiet EXCEPT !.files = {Set(Nothing, a) : a \in Auths},
                   !.launches = {[cli |-> Nothing, env |-> e, protocol |-> p] :
                                    e \in Sources("clientPassword", {"p"}) \cup Sources("clientUser", {"u"}),
                                    p \in {"mysql", "postgres"}}]}

-----------------------------------------------------------------------------
(* Scans. *)

E == <<Token("email")>>   S == <<Token("ssn")>>   W == <<Token("word")>>
Column(hint, scannable) == [hint |-> hint, scannable |-> scannable]
Table(cols, rows) == [begins |-> "neither", columns |-> cols, rows |-> rows]
Named(begins, table) == [table EXCEPT !.begins = begins]
Databases ==
    {"t1" :> Table(<<Column("email", TRUE), Column(NoHint, TRUE)>>,
                   <<<<E, W>>, <<NullValue, S>>, <<E, E>>, <<W, W>>>>)
     @@ "t2" :> Table(<<Column("ssn", TRUE), Column("phone", FALSE)>>, <<>>)
     @@ "t3" :> Table(<<Column("phone", TRUE)>>, <<<<E>>, <<S>>, <<NullValue>>, <<W>>>>)
     @@ "t4" :> Named("pg", Table(<<Column("email", TRUE)>>, <<<<E>>>>)),
     "t1" :> Table(<<Column(NoHint, TRUE), Column("ssn", TRUE)>>,
                   <<<<E, E>>, <<E, W>>, <<S, S>>, <<Unreadable, W>>, <<E, Unreadable>>>>)
     @@ "t2" :> Table(<<>>, <<>>)
     @@ "t3" :> Named("sql", Table(<<Column("ssn", TRUE)>>, <<<<S>>>>))}
ScanOf(op, database, exclude, threshold) ==
    [op |-> op, database |-> database, exclude |-> exclude, threshold |-> threshold,
     sampleSize |-> 100, credentials |-> TRUE, protocol |-> "postgres"]
Scans ==
    {ScanOf(op, d, x, th) : op \in {"scan", "schema"}, d \in Databases,
                            x \in {{}, {"t1"}}, th \in {25, 50, 70}}
    \cup {[ScanOf("scan", d, {}, 50) EXCEPT !.credentials = FALSE] : d \in Databases}
    \cup {[ScanOf("scan", d, {}, 50) EXCEPT !.protocol = "mysql"] : d \in Databases}
    \cup {[ScanOf("scan", d, {}, 50) EXCEPT !.sampleSize = 2] : d \in Databases}
ScanScenes ==
    {[Quiet EXCEPT !.files = {Plain(<<>>, NoSecret)}, !.scans = Scans]}

MCScenes == EditScenes \cup ReloadScenes \cup HealthScenes \cup AccessScenes
                \cup LaunchScenes \cup ScanScenes

\* An API client that waits for each answer, and the watcher.
DivergeScenes ==
    {[Quiet EXCEPT !.files = {Plain(<<>>, NoSecret)},
                   !.requests = {Both(Add(<<R("t1", "c1", "email")>>), Add(<<R("t1", "c2", "ssn")>>))}]}
=============================================================================
