------------------------------ MODULE RuleList ------------------------------
(***************************************************************************)
(* The list of masking rules as api.rs edits it: rules are told apart by   *)
(* table and column, the first that matches a column decides, and every    *)
(* edit goes over the whole list.                                          *)
(*                                                                         *)
(* Names of tables, columns and strategies are what trimming and lower     *)
(* case make of them.                                                      *)
(***************************************************************************)
EXTENDS Naturals, SequencesExt

CONSTANTS
    NoTable,         \* a rule without a table: it is for the tables of any name
    EmptyTable,      \* the name that is empty once trimmed
    KnownStrategies  \* KNOWN_STRATEGIES

MaskingRule(table, column, strategy) ==
    [table |-> table, column |-> column, strategy |-> strategy]
IsRuleList(rules) ==
    /\ rules \in Seq(Range(rules))
    /\ \A i \in DOMAIN rules : DOMAIN rules[i] = {"table", "column", "strategy"}

\* normalized_rule_key, which keeps an empty table; normalize_rule does not.
Key(rule) == <<rule.table, rule.column>>
Normalized(rule) ==
    IF rule.table = EmptyTable THEN [rule EXCEPT !.table = NoTable] ELSE rule

With(rules, key)  == {i \in DOMAIN rules : Key(rules[i]) = key}
First(rules, key) == Min(With(rules, key))

\* Vec::retain: the rules at these places, in their order.
Retain(rules, places) ==
    LET upTo[n \in 0..Len(rules)] ==
            IF n = 0 THEN <<>>
            ELSE IF n \in places THEN Append(upTo[n - 1], rules[n]) ELSE upTo[n - 1]
    IN upTo[Len(rules)]

\* dedupe_rules keeps the first rule of each key.
Dedupe_KeepsLast(rules) ==
    Retain(rules, {i \in DOMAIN rules : i = Max(With(rules, Key(rules[i])))})
Dedupe(rules) ==
    Retain(rules, {i \in DOMAIN rules : i = First(rules, Key(rules[i]))})

\* upsert_rule changes the strategy where the rule stands, or appends the rule.
Upsert(rules, rule) ==
    LET same == With(rules, Key(rule))
    IN IF same = {} THEN Append(rules, rule)
                    ELSE [rules EXCEPT ![First(rules, Key(rule))].strategy = rule.strategy]

\* add_rule and import_rules.
Import(rules, incoming) ==
    LET upTo[n \in 0..Len(incoming)] ==
            IF n = 0 THEN Dedupe(rules) ELSE Upsert(upTo[n - 1], Normalized(incoming[n]))
    IN upTo[Len(incoming)]

\* delete_rule: without a table, the column's rules of every table.
Deletes(rule, table, column) == rule.column = column /\ table \in {NoTable, rule.table}
Delete(rules, table, column) ==
    Retain(rules, {i \in DOMAIN rules : ~Deletes(rules[i], table, column)})

Acceptable(rules) == \A i \in DOMAIN rules : rules[i].strategy \in KnownStrategies
=============================================================================
