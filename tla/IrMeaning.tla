------------------------------ MODULE IrMeaning ------------------------------
(***************************************************************************)
(* What the operations of AfterBurner IR mean, as their documentation says   *)
(* (crates/afterburner/src/ir/model/operation.rs), without SQL: the reference *)
(* the rendered statements are compared with.                                *)
(*                                                                         *)
(* The meaning of a relation on a database is a sequence of ties: the rows of *)
(* an earlier tie come before those of a later one, the rows of one tie in    *)
(* any order.                                                               *)
(***************************************************************************)
EXTENDS PostgresServer

RECURSIVE ValueOf(_, _, _)
\* A value on a row; group: the rows an aggregate or a window looks at.
ValueOf(value, row, group) ==
    LET operand(i) == ValueOf(value.operands[i], row, <<>>)
        on(i, other) == ValueOf(value.operands[i], other, <<>>)
    IN  CASE value.op = "argument" -> row[value.with.index]
          [] value.op = "literal" -> value.with.value
          [] value.op = "cast" -> operand(1)
          [] value.op = "unary" ->
                (CASE value.with.operator = "Not" -> SqlNot(operand(1))
                   [] value.with.operator = "IsNull" -> operand(1) = Null
                   [] value.with.operator = "IsNotNull" -> operand(1) # Null)
          [] value.op = "binary" -> Operator(value.with.operator, operand(1), operand(2))
          [] value.op = "case" -> CaseOf(value.with.arms, operand)
          [] value.op = "aggregate_call" ->
                IF value.with.star THEN Len(group)
                ELSE AggregateOf(value.with.function, [i \in DOMAIN group |-> on(1, group[i])])
          [] value.op = "window_call" -> Windowed(value.with, on, group, row)
ValuesOf(values, row, group) == Computed([i \in DOMAIN values |-> ValueOf(values[i], row, group)])

\* Rows that come distinct and sorted share one SELECT, unless their list was chosen before.
SelectsDistinct(node) ==
    node.op = "distinct" /\ node.operands[1].op \notin {"project", "aggregate", "window"}
\* A projection of sorted rows keeps their order; nothing else above a sort does.
KeepsOrder(project) ==
    LET input == project.operands[1]
        sort == IF input.op = "limit" THEN input.operands[1] ELSE input
    IN  sort.op = "sort" /\ ~SelectsDistinct(sort.operands[1])

Unordered(rows) == <<rows>>
RowsIn(ties) == FlattenSeq(ties)
Sorted(node, rows) ==
    LET keysOf(row) == ValuesOf(Yields(node), row, <<>>)
        before(a, b) == RowBefore(node.with.keys, a, b)
        keys == SortSeq(Deduplicated(Computed([r \in DOMAIN rows |-> keysOf(rows[r])])), before)
    IN  [k \in DOMAIN keys |-> SelectSeq(rows, LAMBDA row : keysOf(row) = keys[k])]
\* The input of a limit is in a total order.
Limited(node, rows) ==
    LET counts == Tail(node.operands)
        left == Slice(rows, IF node.with.has_offset THEN Some(Head(counts).with.value) ELSE None,
                      IF node.with.has_fetch THEN Some(Last(counts).with.value) ELSE None)
    IN  [r \in DOMAIN left |-> <<left[r]>>]
Joined(node, left, right) ==
    LET width(k) == Len(Schema(node.operands[k]))
        on(row, other) == \/ ~node.with.has_condition
                          \/ ValueOf(Yields(node)[1], row \o other, <<>>) = TRUE
        pairs == JoinRows(node.with.kind, left, right, on)
        some(row) == \E i \in DOMAIN right : on(row, right[i])
    IN  CASE node.with.kind = "Semi" -> SelectSeq(left, some)
          [] node.with.kind = "Anti" -> SelectSeq(left, LAMBDA row : ~some(row))
          [] OTHER -> [p \in DOMAIN pairs |->
                          Extended(pairs[p][1], width(1)) \o Extended(pairs[p][2], width(2))]
\* One row for each group; a relation that is not grouped by anything is one group.
Aggregated(node, rows) ==
    LET width == node.with.group_keys
        keyed == [r \in DOMAIN rows |->
                     [row |-> rows[r], keys |-> ValuesOf(SubSeq(Yields(node), 1, width), rows[r], <<>>)]]
        keys == IF width = 0 THEN <<<<>>>> ELSE Deduplicated([r \in DOMAIN keyed |-> keyed[r].keys])
        groups == Computed(Grouped(Computed(keyed), keys))
        members(g) == Computed([i \in DOMAIN g |-> g[i].row])
        outputs == SubSeq(Yields(node), width + 1, Len(Yields(node)))
    IN  [k \in DOMAIN groups |->
            ValuesOf(outputs, IF groups[k] = <<>> THEN <<>> ELSE groups[k][1].row, members(groups[k]))]

RECURSIVE Meaning(_, _)
RowsMeant(node, db) == Computed(RowsIn(Meaning(node, db)))
Meaning(node, db) ==
    LET inputs == Computed([i \in DOMAIN node.operands |->
                     IF IsRelation(node.operands[i].result) THEN RowsMeant(node.operands[i], db)
                     ELSE <<>>])
        rows == inputs[1]
        each(row) == ValuesOf(Yields(node), row, rows)
        ties == Meaning(node.operands[1], db)
        both(a, b) == SetRows(node.with.operator, node.with.all, a, b)
    IN  CASE node.op = "scan" ->
                LET names == TableColumns(Table(node.with.table))
                    column(i) == CHOOSE c \in DOMAIN names : names[c] = node.with.columns[i]
                    all == db[node.with.table]
                IN  Unordered([r \in DOMAIN all |->
                                  [i \in DOMAIN node.with.columns |-> all[r][column(i)]]])
          [] node.op = "values" ->
                Unordered([r \in DOMAIN node.with.rows |->
                              [i \in DOMAIN node.with.rows[r] |-> node.with.rows[r][i].value]])
          [] node.op = "empty" -> Unordered(<<>>)
          [] node.op = "filter" ->
                Unordered(SelectSeq(rows, LAMBDA row : each(row) = <<TRUE>>))
          [] node.op = "project" ->
                IF KeepsOrder(node)
                THEN [t \in DOMAIN ties |-> [r \in DOMAIN ties[t] |-> each(ties[t][r])]]
                ELSE Unordered([r \in DOMAIN rows |-> each(rows[r])])
          [] node.op = "window" -> Unordered([r \in DOMAIN rows |-> each(rows[r])])
          [] node.op = "distinct" -> Unordered(Deduplicated(rows))
          [] node.op = "sort" -> Sorted(node, rows)
          [] node.op = "limit" -> Limited(node, rows)
          [] node.op = "exists" -> Unordered(<<<<rows # <<>>>>>>)
          [] node.op = "join" -> Unordered(Joined(node, rows, inputs[2]))
          [] node.op = "aggregate" -> Unordered(Aggregated(node, rows))
          [] node.op = "set" -> Unordered(Folded(both, rows, Tail(inputs)))

\* Rows in an order that a meaning allows.
SameBag(a, b) ==
    /\ Len(a) = Len(b)
    /\ \A row \in ToSet(a) :
          Cardinality({i \in DOMAIN a : a[i] = row}) = Cardinality({i \in DOMAIN b : b[i] = row})
IsArrangement(rows, ties) ==
    LET start(t) == Folded(LAMBDA sum, tie : sum + Len(tie), 0, SubSeq(ties, 1, t - 1))
    IN  /\ Len(rows) = start(Len(ties) + 1)
        /\ \A t \in DOMAIN ties :
              SameBag(SubSeq(rows, start(t) + 1, start(t) + Len(ties[t])), ties[t])
==============================================================================
