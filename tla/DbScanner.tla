----------------------------- MODULE DbScanner -----------------------------
(***************************************************************************)
(* POST /scan and POST /schema: db_scanner.rs reads the columns of a       *)
(* schema, samples table after table and reports the columns that hold, or *)
(* by their name seem to hold, personal data; the handler gives it 120     *)
(* seconds.                                                                *)
(*                                                                         *)
(* A database is a function from its tables to their columns and rows.  Of *)
(* the name of a column only the type it hints at matters, and of the name *)
(* of a table how it begins: with "pg" and a character more, with "sql"    *)
(* and a character more, or neither.  A value is a text of Detection,      *)
(* trimmed, NULL, or what the driver cannot make a String of.  Confidences *)
(* are in percent.                                                         *)
(***************************************************************************)
EXTENDS Detection, FiniteSets

CONSTANTS
    NoHint,     \* the name of a column hints at nothing; no type is detected
    NullValue,  \* NULL
    Unreadable, \* a value that try_get::<String> fails on: not UTF-8, say
    MaxSample,  \* MAX_SAMPLE_SIZE
    NoScan      \* nothing is under way

\* A request with its database, as their types have them: threshold and sample size are
\* numbers, and a table has finitely many columns and rows.
IsJob(asked) ==
    /\ {asked.threshold, asked.sampleSize} \subseteq Nat
    /\ \A t \in DOMAIN asked.database :
          /\ asked.database[t].begins \in {"pg", "sql", "neither"}
          /\ IsFiniteSet(DOMAIN asked.database[t].columns)
          /\ Len(asked.database[t].rows) \in Nat

ASSUME DbScannerAssumption == NoHint \notin PiiTypes /\ MaxSample \in Nat

VARIABLES
    job,      \* the request and the database
    stage,    \* where the request is
    todo,     \* tables still to be read
    findings, \* findings of a scan, tables of a schema
    columns,  \* columns_scanned
    answer    \* what the client is told

scanner == <<job, stage, todo, findings, columns, answer>>

Waiting == [code |-> "none", findings |-> {}, columns |-> 0]

ScanInit ==
    /\ stage = IF job = NoScan THEN "done" ELSE "asked"
    /\ todo = {}
    /\ findings = {}
    /\ columns = 0
    /\ answer = Waiting

\* The answer is given, and what has been gathered is in it only if it is complete.
EndScan(code, found) ==
    /\ answer' = [code |-> code, findings |-> found, columns |-> columns]
    /\ stage' = "done"
    /\ UNCHANGED <<job, todo, findings, columns>>

GoScan(next) == stage' = next /\ UNCHANGED <<job, findings, columns, answer>>

\* The credentials come first, then the protocol.
CheckRequest ==
    /\ stage = "asked"
    /\ CASE ~job.credentials -> EndScan("auth_required", {})
         [] job.credentials /\ job.protocol = "mysql" -> EndScan("unsupported_protocol", {})
         [] OTHER -> GoScan("connecting") /\ UNCHANGED todo

\* connect_postgres, with its timeout of ten seconds.
Connect ==
    /\ stage = "connecting"
    /\ \/ GoScan("connected") /\ UNCHANGED todo
       \/ EndScan("connection_failed", {})

\* table_name NOT LIKE 'pg_%' AND table_name NOT LIKE 'sql_%', for the catalogs.  To
\* LIKE an underscore is any character: the user's own "pgx" and "sqlmap" are left out too.
PassesLike(t) == job.database[t].begins \notin {"pg", "sql"}

\* get_postgres_columns: the tables are those that have columns.
ListColumns ==
    /\ stage = "connected"
    /\ \/ /\ GoScan("reading")
          /\ todo' = {t \in DOMAIN job.database :
                        /\ job.database[t].columns # <<>> /\ t \notin job.exclude
                        /\ PassesLike(t)}
       \/ EndScan("query_failed", {})

-----------------------------------------------------------------------------
(* One table *)

\* sample_postgres_table: as many rows as the table has, up to the limit.
SampleSize(t) ==
    Min({Len(job.database[t].rows), job.sampleSize, MaxSample})
\* A value that cannot be read is taken for NULL: it counts as a row and shows nothing.
Values(t, c) ==
    [r \in 1..SampleSize(t) |->
        IF job.database[t].rows[r][c] = Unreadable THEN NullValue ELSE job.database[t].rows[r][c]]

\* scan_column_values, with every type of which most values are.
Matches(values, types) ==
    {r \in DOMAIN values : values[r] # NullValue /\ Detected(values[r], types)}
MostCommon(values) ==
    {type \in PiiTypes :
        /\ Matches(values, {type}) # {}
        /\ \A other \in PiiTypes : Cardinality(Matches(values, {other}))
                                      <= Cardinality(Matches(values, {type}))}

Ratio(values) ==
    IF values = <<>> THEN 0
    ELSE (100 * Cardinality(Matches(values, PiiTypes))) \div Len(values)

\* The type and the confidence that the name and the data add up to.
Verdict(hint, detected, ratio, threshold) ==
    CASE detected = NoHint /\ hint = NoHint -> [type |-> NoHint, confidence |-> 0]
      [] detected = NoHint /\ hint # NoHint ->
             IF ratio < threshold THEN [type |-> hint, confidence |-> 60]
                                  ELSE [type |-> NoHint, confidence |-> ratio]
      [] detected # NoHint /\ hint = detected ->
             [type |-> detected, confidence |-> Min({ratio + 30, 100})]
      [] detected # NoHint /\ hint \notin {NoHint, detected} ->
             [type |-> detected, confidence |-> (ratio * 8) \div 10]
      [] OTHER -> [type |-> detected, confidence |-> ratio]

\* The first value detected is shown by its length.
Shown(values) ==
    IF Matches(values, PiiTypes) = {} THEN 0 ELSE Len(values[Min(Matches(values, PiiTypes))])

Finding(t, c, verdict) ==
    [table |-> t, column |-> c, type |-> verdict.type, confidence |-> verdict.confidence,
     shown |-> Shown(Values(t, c)), rows |-> SampleSize(t),
     matches |-> Cardinality(Matches(Values(t, c), PiiTypes))]

Verdicts(t, c) ==
    LET column == job.database[t].columns[c]
        types  == MostCommon(Values(t, c))
    IN {Verdict(column.hint, type, Ratio(Values(t, c)), job.threshold) :
            type \in IF types = {} THEN {NoHint} ELSE types}

FindingsOf(t, c) ==
    IF ~job.database[t].columns[c].scannable THEN {{}}
    ELSE {IF v.type # NoHint /\ v.confidence >= job.threshold THEN {Finding(t, c, v)} ELSE {} :
            v \in Verdicts(t, c)}

\* What one table may add: ties between types are broken by a hash map's order.
Columns(t) == DOMAIN job.database[t].columns
TableFindings(t) ==
    {UNION Range(f) : f \in {f \in [Columns(t) -> UNION {FindingsOf(t, c) : c \in Columns(t)}] :
                                \A c \in Columns(t) : f[c] \in FindingsOf(t, c)}}

Sampled(t, found) ==
    /\ findings' = findings \cup found
    /\ todo' = todo \ {t}
    /\ columns' = columns + Cardinality(Columns(t))
    /\ UNCHANGED <<job, stage, answer>>

\* A table that cannot be sampled fails the whole scan.
SampleTable_SkipsFailed(t) ==
    /\ stage = "reading" /\ job.op = "scan"
    /\ t \in todo
    /\ \E found \in TableFindings(t) \cup {{}} : Sampled(t, found)
SampleTable(t) ==
    /\ stage = "reading" /\ job.op = "scan"
    /\ t \in todo
    /\ \/ \E found \in TableFindings(t) : Sampled(t, found)
       \/ EndScan("query_failed", {})

\* get_table_row_count: a count that fails is left out, the table is not.
DescribeTable(t) ==
    /\ stage = "reading" /\ job.op = "schema"
    /\ t \in todo
    /\ \E count \in {<<>>, <<Len(job.database[t].rows)>>} :
          findings' = findings \cup {[table |-> t, count |-> count]}
    /\ todo' = todo \ {t}
    /\ UNCHANGED <<job, stage, columns, answer>>

Complete == stage = "reading" /\ todo = {} /\ EndScan("ok", findings)

\* SCAN_TIMEOUT, at any await.
ScanTimesOut == stage # "done" /\ EndScan("scan_timeout", {})

ScanStep ==
    \/ CheckRequest \/ Connect \/ ListColumns
    \/ \E t \in todo : SampleTable(t) \/ DescribeTable(t)
    \/ Complete \/ ScanTimesOut

-----------------------------------------------------------------------------
(* Properties *)

ScanTypeOK ==
    /\ stage \in {"asked", "connecting", "connected", "reading", "done"}
    /\ columns \in Nat
    /\ job # NoScan => todo \subseteq DOMAIN job.database

\* "Scan results exist to answer 'is there PII in this column'" (mask_sample): a
\* report that says "ok" covers every table that was not excluded and passes the filter
\* on names, no other, and a scan that failed or ran out of time on one of them reports
\* nothing.  Of a table that the filter takes for a catalog, be it the user's own, the
\* report says nothing, and not that it was skipped: the answer is no more complete than
\* the filter.  A text column of which the asked share of the sample reads as one type is
\* in it as that type, unless its name says otherwise, and so is one whose name hints at
\* a type that no value shows; a column that neither its readable values nor its name
\* give away is not.  Of a value it shows the length.
About(t, c) == {f \in answer.findings : f.table = t /\ f.column = c}
ColumnReported(t, c, about) ==
    LET column == job.database[t].columns[c]
        found  == {values \in {Values(t, c)} : Matches(values, PiiTypes) # {}}
    IN /\ Cardinality(about) <= 1
       /\ \A f \in about : f.matches = 0 => f.type = column.hint /\ f.shown = 0
       /\ column.scannable =>
             /\ \A type \in PiiTypes :
                   /\ 100 * Cardinality(Matches(Values(t, c), {type})) >= job.threshold * Len(Values(t, c))
                   /\ Matches(Values(t, c), {type}) = Matches(Values(t, c), PiiTypes)
                   /\ found # {} /\ column.hint \in {type, NoHint}
                   => \E f \in about : f.type = type /\ f.confidence >= job.threshold
             /\ found = {} /\ column.hint # NoHint /\ job.threshold \in 1..60 => about # {}
             /\ found = {} /\ column.hint = NoHint => about = {}
       /\ ~column.scannable => about = {}
ReportIsComplete ==
    stage = "done" /\ job # NoScan =>
        /\ answer.code # "ok" => answer.findings = {}
        /\ answer.code = "ok" =>
              LET tables == {t \in DOMAIN job.database :
                                /\ t \notin job.exclude /\ job.database[t].begins = "neither"
                                /\ job.database[t].columns # <<>>}
              IN IF job.op = "schema" THEN {f.table : f \in answer.findings} = tables
                 ELSE /\ {f.table : f \in answer.findings} \subseteq tables
                      /\ \A t \in tables : \A c \in Columns(t) :
                            ColumnReported(t, c, About(t, c))
=============================================================================
