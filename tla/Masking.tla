------------------------------ MODULE Masking ------------------------------
(***************************************************************************)
(* What interceptor.rs does to one row: which rule a column is under, by   *)
(* its label or its origin, and what becomes of each of its cells.         *)
(*                                                                         *)
(* A cell is a text, a JSON document as the sequence of its leaves, a JSON *)
(* scalar, a PostgreSQL array, or bytes that are no UTF-8.  A leaf of a    *)
(* document is a string, something else (a number, the key of an object),  *)
(* or shadowed: the key or the value of a member whose key comes again     *)
(* later in the same object.  The leaves of an array are what its outer-   *)
(* most commas part, so that of an array of arrays the elements at the     *)
(* ends of the inner ones have those braces (gaps) beside them; the quotes *)
(* of an element are not counted.                                          *)
(* Names of tables and columns are what normalize_identifier makes of      *)
(* them.                                                                   *)
(***************************************************************************)
EXTENDS Detection

CONSTANTS AnyTable,  \* a rule without a table
          NoName,    \* the empty name: an expression has no origin
          NoRule     \* no rule applies to a column

Roles == {"string", "other", "shadowed"}
Leaf(role, text)    == [role |-> role, text |-> text]
Cell(shape, leaves) == [shape |-> shape, leaves |-> leaves]
Text(tokens)        == Cell("text", <<Leaf("string", tokens)>>)
Null                 == Cell("null", <<>>)

Flatten(Op(_), s) == FlattenSeq([i \in DOMAIN s |-> Op(s[i])])

\* The characters of a cell: brackets, commas and quotes are gaps.
Flat(cell) ==
    CASE cell.shape = "null"  -> <<>>
      [] cell.shape = "bytes" -> <<Token("word")>>
      [] cell.shape = "text"  -> cell.leaves[1].text
      [] cell.shape = "scalar" /\ cell.leaves[1].role # "string" -> cell.leaves[1].text
      [] OTHER -> <<Gap>> \o Flatten(LAMBDA leaf : Append(leaf.text, Gap), cell.leaves)

IsJson(cell) == cell.shape \in {"document", "scalar"}

IsList(s) == Len(s) \in Nat /\ s = [i \in 1..Len(s) |-> s[i]]

\* A text as the data has it, with a gap between any two words, and a cell of such.
IsText(text) ==
    /\ text \in Seq({Token(kind) : kind \in TokenKinds})
    /\ \A i \in DOMAIN text : i + 1 \in DOMAIN text => Gap \in {text[i], text[i + 1]}
IsCell(cell) ==
    /\ cell = Cell(cell.shape, cell.leaves)
    /\ cell.shape \in {"null", "bytes", "text", "scalar", "document", "array"}
    /\ IsList(cell.leaves)
    /\ \A l \in DOMAIN cell.leaves :
          /\ cell.leaves[l] = Leaf(cell.leaves[l].role, cell.leaves[l].text)
          /\ cell.leaves[l].role \in Roles /\ IsText(cell.leaves[l].text)
          /\ cell.leaves[l].role = "shadowed" => cell.shape = "document"
    /\ cell.shape \in {"null", "bytes"} => cell.leaves = <<>>
    /\ cell.shape \in {"text", "scalar"} => Len(cell.leaves) = 1
    /\ cell.shape = "text" => cell = Text(cell.leaves[1].text)
    /\ cell.shape = "scalar" => cell.leaves[1].text # <<>>

\* What mask_cell returns: the new cell, the strategies counted, and the text of
\* the log record (a marker, unless the whole value was replaced).
Masked(cell, used, shown) == [cell |-> cell, used |-> used, shown |-> shown]
Marker == <<Fake("word")>>

Kept(cell)        == Masked(cell, <<>>, <<>>)
Replaced(kind)    == Masked(Text(<<Fake(kind)>>), <<kind>>, <<Fake(kind)>>)
Sentinel          == Masked(Text(<<Fake("word")>>), <<"json">>, <<Fake("word")>>)

MaskString_WholeOnly(leaf, allowed) ==
    IF Detected(leaf.text, allowed)
    THEN [leaf EXCEPT !.text = <<Fake(leaf.text[1].kind)>>]
    ELSE leaf
\* mask_json_recursively: a string is replaced whole, or in its spans.
MaskString(leaf, allowed) ==
    IF Detected(leaf.text, allowed)
    THEN [leaf EXCEPT !.text = <<Fake(leaf.text[1].kind)>>]
    ELSE [leaf EXCEPT !.text = MaskSpans(leaf.text, allowed)]

\* from_str and to_string of serde_json: a number is printed as it was understood, and
\* of the members of one key only the last is there.  (The order the members are printed
\* in, by key, and the blanks between them are left out.)
Reprinted(text) ==
    [i \in DOMAIN text |-> IF text[i].kind = "long" THEN Token("rounded") ELSE text[i]]
RewriteLeaf(leaf, allowed) ==
    CASE leaf.role = "string" -> MaskString(leaf, allowed)
      [] leaf.role = "other"  -> [leaf EXCEPT !.text = Reprinted(leaf.text)]
      [] OTHER                -> [leaf EXCEPT !.text = <<>>]

\* A document is rewritten if a string of it has changed, and else left as it came.
StringsChange(cell, allowed) ==
    \E l \in DOMAIN cell.leaves :
        cell.leaves[l].role = "string" /\ MaskString(cell.leaves[l], allowed) # cell.leaves[l]
MaskJson(cell, allowed) ==
    IF StringsChange(cell, allowed)
    THEN [cell EXCEPT !.leaves = [i \in DOMAIN cell.leaves |->
                                     RewriteLeaf(cell.leaves[i], allowed)]]
    ELSE cell

\* mask_postgres_array: whole elements only, the others as they came, braces and all.
MaskArray(cell, allowed) ==
    [cell EXCEPT !.leaves = [i \in DOMAIN cell.leaves |->
        IF Detected(cell.leaves[i].text, allowed)
        THEN [cell.leaves[i] EXCEPT !.text = <<Fake(cell.leaves[i].text[1].kind)>>]
        ELSE cell.leaves[i]]]

\* Of a document unchanged, nothing more is tried; of an array unchanged, its
\* spans are.
MaskByContent(cell, allowed) ==
    LET json  == MaskJson(cell, allowed)
        array == MaskArray(cell, allowed)
        text  == Flat(cell)
        spans == Spans(text, allowed)
    IN CASE cell.shape = "bytes" -> Kept(cell)
         [] cell.shape = "document" ->
                IF json = cell THEN Kept(cell) ELSE Masked(json, <<"json">>, Marker)
         [] cell.shape = "array" /\ array # cell ->
                Masked(array, <<"other">>, Marker)
         [] Detected(text, allowed) -> Replaced(text[1].kind)
         [] OTHER ->
                IF spans = {} THEN Kept(cell)
                ELSE Masked(Text(MaskSpans(text, allowed)),
                            FlattenSeq([i \in DOMAIN text |->
                                IF i \in spans THEN <<text[i].kind>> ELSE <<>>]), Marker)

\* A json rule over a value that is no JSON fails closed.
MaskByRule(cell, strategy, allowed) ==
    CASE strategy = "json" /\ ~IsJson(cell) -> Sentinel
      [] strategy = "json" /\ IsJson(cell) ->
             LET json == MaskJson(cell, allowed)
             IN IF json = cell THEN Kept(cell)
                               ELSE Masked(json, <<"json">>, Marker)
      [] OTHER -> Replaced(strategy)

\* mask_cell.  An explicit json rule looks for the configured types also when the
\* heuristics are off.
MaskCell(cell, strategy, heuristics) ==
    CASE cell = Null         -> Kept(cell)
      [] cell # Null /\ strategy # NoRule ->
             MaskByRule(cell, strategy, heuristics.types)
      [] cell # Null /\ strategy = NoRule /\ heuristics.enabled ->
             MaskByContent(cell, heuristics.types)
      [] OTHER               -> Kept(cell)

\* on_data_row, on_result_row: the result is the masked row, what is counted, what the
\* log entry shows of it, and which columns it tells of.
MaskRow(values, targets, policy) ==
    LET cells == [i \in DOMAIN values |->
                    MaskCell(values[i],
                             IF i \in DOMAIN targets THEN targets[i] ELSE NoRule,
                             policy.heuristics)]
    IN IF policy.enabled
       THEN [values |-> [i \in DOMAIN cells |-> cells[i].cell],
             used   |-> FlattenSeq([i \in DOMAIN cells |-> cells[i].used]),
             shown  |-> FlattenSeq([i \in DOMAIN cells |-> cells[i].shown]),
             told   |-> {i \in DOMAIN cells : cells[i].used # <<>>}]
       ELSE [values |-> values, used |-> <<>>, shown |-> <<>>, told |-> {}]

-----------------------------------------------------------------------------
(* Which rule a column is under: the first that matches *)

Rule(table, column, strategy) ==
    [table |-> table, column |-> column, strategy |-> strategy]

FirstMatch(rules, Matches(_)) ==
    LET matching == {i \in DOMAIN rules : Matches(rules[i])}
    IN IF matching = {} THEN NoRule ELSE rules[Min(matching)].strategy

\* A field of a RowDescription, and what the catalog query has found out about its
\* origin: tables by their oid, columns by oid and number.  Oid 0 is an expression.
Field(name, oid, number) == [name |-> name, oid |-> oid, number |-> number]

Origin(field, catalog) ==
    IF <<field.oid, field.number>> \in DOMAIN catalog.columns
    THEN catalog.columns[<<field.oid, field.number>>] ELSE NoName

PgTarget_LabelOnly(field, rules, catalog) ==
    FirstMatch(rules, LAMBDA rule : rule.column = field.name)
PgTarget(field, rules, catalog) ==
    FirstMatch(rules, LAMBDA rule :
        /\ \/ rule.table = AnyTable
           \/ /\ field.oid \in DOMAIN catalog.tables
              /\ rule.table \in catalog.tables[field.oid]
        /\ rule.column \in {field.name} \cup ({Origin(field, catalog)} \ {NoName}))

\* A column definition of MySQL names its origin itself.
Column(name, origin, table, originTable) ==
    [name |-> name, origin |-> origin, table |-> table, originTable |-> originTable]

MySqlTarget(column, rules) ==
    FirstMatch(rules, LAMBDA rule :
        /\ rule.table \in {AnyTable, column.table} \cup ({column.originTable} \ {NoName})
        /\ rule.column \in {column.name} \cup ({column.origin} \ {NoName}))
=============================================================================
