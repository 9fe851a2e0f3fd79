-------------------------- MODULE PostgresStatements --------------------------
(***************************************************************************)
(* PostgreSQL statements from verified AfterBurner IR                        *)
(* (crates/jetorm-dialect/src/postgres).  SQL text is a tree here: a SELECT  *)
(* has its list, source and clauses, an expression its operator and          *)
(* arguments.  Placeholders are numbered as rendering first meets them, and  *)
(* the statement remembers which bind position each one stands for; the      *)
(* renderer's parameter map is threaded through as `params'.  Errors are     *)
(* collected in the order they are met, and the first one is the outcome.    *)
(*                                                                         *)
(* Aliases are left out: every source gets a fresh one, and an expression    *)
(* names a column of the first or the second source of its row scope.  Left   *)
(* out as well are IR that the queries of this repository do not build: a     *)
(* volatile value used twice or a value captured from an enclosing region     *)
(* (both refused by render_value), a table of another catalog (refused by     *)
(* table_sql) and what a window frame excludes.                               *)
(***************************************************************************)
EXTENDS QueryTyping

-----------------------------------------------------------------------------
(* Names and types.                                                          *)

Unsupported == "Unsupported"
Inconsistent == "Inconsistent"
When(holds, error) == IF holds THEN <<error>> ELSE <<>>

QuoteIdentifier(name) ==
    When(name = <<"">>, Inconsistent) \o When("NUL" \in ToSet(name), Unsupported)
QuoteList(names) == FlattenSeq([i \in DOMAIN names |-> QuoteIdentifier(names[i])])

\* A type that PostgreSQL has a name for.
RECURSIVE TypeName(_)
TypeName(kind) ==
    CASE kind[1] = "array" -> TypeName(Tail(kind))
      [] kind[1] = "custom" -> When(kind[2] = "", Unsupported)
      [] kind[1] \in {"time", "timestamp"} -> When(Tail(kind) \notin {<<>>, <<"utc">>}, Unsupported)
      [] OTHER -> When(kind \in {<<"uint64">>, <<"int8">>, <<"float16">>}, Unsupported)

-----------------------------------------------------------------------------
(* Expressions.                                                              *)

Sql(sql, with, args) == [sql |-> sql, with |-> with, args |-> args]
\* side: the first or the second source in scope
ColumnRef(side, name) == Sql("column", [side |-> side, name |-> name], <<>>)
Placeholder(n, kind) == Sql("placeholder", [n |-> n, kind |-> kind], <<>>)
\* exact: spelled with a cast to its kind
LiteralOf(of, value, kind, exact) ==
    Sql("literal", [of |-> of, value |-> value, kind |-> kind, exact |-> exact], <<>>)

Rendered(sql, params, errors) == [sql |-> sql, params |-> params, errors |-> errors]

\* The number of a position is that of its first appearance.
PlaceholderIn(params, position) ==
    IF position \in ToSet(params) THEN params ELSE Append(params, position)
NumberOf(params, position) == CHOOSE n \in DOMAIN params : params[n] = position
\* scope: the columns of the one or two sources of the row
ScopeColumn(scope, index) ==
    IF index <= Len(scope[1]) THEN Some(ColumnRef(1, scope[1][index]))
    ELSE IF Len(scope) = 2 /\ index <= Len(scope[1]) + Len(scope[2])
         THEN Some(ColumnRef(2, scope[2][index - Len(scope[1])]))
    ELSE None

\* A literal in the type of its context.
LiteralErrors(of, kind, exact) ==
    CASE of \in {"null", "float"} -> TypeName(kind)
      [] of = "timestamp" ->
            IF kind[1] # "timestamp" THEN <<Inconsistent>>
            ELSE When(Tail(kind) = <<"named">>, Unsupported)
      [] of \in {"late_time", "fine_time"} -> <<Unsupported>>
      [] of \in {"boolean", "integer", "decimal", "string"} -> IF exact THEN TypeName(kind) ELSE <<>>
      [] OTHER -> <<>>

RECURSIVE RenderValue(_, _, _)
RenderAll(values, scope, params) ==
    LET joined(all, one) == Rendered(Append(all.sql, one.sql), one.params, all.errors \o one.errors)
        next(all, value) == joined(all, RenderValue(value, scope, all.params))
    IN  Folded(next, Rendered(<<>>, params, <<>>), values)
RenderValue(value, scope, params) ==
    CASE value.op = "argument" ->
            LET column == ScopeColumn(scope, value.with.index)
            IN  IF column = None THEN Rendered(Sql("none", <<>>, <<>>), params, <<Inconsistent>>)
                ELSE Rendered(column[1], params, QuoteIdentifier(column[1].with.name))
      [] value.op = "parameter" ->
            LET known == PlaceholderIn(params, value.with.position)
            IN  Rendered(Placeholder(NumberOf(known, value.with.position), value.result.kind),
                         known, TypeName(value.result.kind))
      [] value.op = "literal" ->
            Rendered(LiteralOf(value.with.of, value.with.value, value.result.kind, FALSE), params,
                     LiteralErrors(value.with.of, value.result.kind, FALSE))
      [] value.op = "aggregate_call" /\ value.with.star ->
            Rendered(Sql("call", value.with, <<>>), params, <<>>)
      [] value.op = "cast" ->
            LET operand == RenderValue(value.operands[1], scope, params)
            IN  IF value.operands[1].result.kind = value.with.to.kind THEN operand
                ELSE Rendered(Sql("cast", [kind |-> value.with.to.kind], <<operand.sql>>),
                              operand.params, operand.errors \o TypeName(value.with.to.kind))
      [] value.op \in {"unary", "binary", "case", "call", "aggregate_call", "window_call"} ->
            LET args == RenderAll(value.operands, scope, params)
            IN  Rendered(Sql(IF value.op = "aggregate_call" THEN "call" ELSE value.op,
                             value.with, args.sql),
                         args.params,
                         args.errors \o When(value.op = "aggregate_call" /\ value.operands = <<>>,
                                             Unsupported))
      [] OTHER -> Rendered(Sql("none", <<>>, <<>>), params, <<Inconsistent>>)

-----------------------------------------------------------------------------
(* SELECT statements.                                                        *)

\* How much of SQL's evaluation order a statement under construction has used.
StageFrom == 0
StageWhere == 1
StageProjection == 2
StageDistinct == 3
StageOrderBy == 4
StageLimit == 5

Source(source, with) == [source |-> source, with |-> with]
FromSource(from, columns, params, errors) ==
    [from |-> from, columns |-> columns, projection |-> None, where |-> None, group |-> None,
     distinct |-> FALSE, order |-> <<>>, offset |-> None, fetch |-> None, stage |-> StageFrom,
     params |-> params, errors |-> errors, yielded |-> <<>>]

Output(sql, name) == [sql |-> sql, name |-> name]
RenderErrors(builder) ==
    builder.errors \o When(builder.columns = <<>>, Unsupported) \o QuoteList(builder.columns)
Select(builder) ==
    [select |-> IF builder.projection # None THEN builder.projection[1]
                ELSE [i \in DOMAIN builder.columns |->
                         Output(ColumnRef(1, builder.columns[i]), builder.columns[i])],
     distinct |-> builder.distinct, from |-> builder.from, where |-> builder.where,
     group |-> builder.group, order |-> builder.order, offset |-> builder.offset,
     fetch |-> builder.fetch]

\* A derived table keeps no order, so one that nothing limits is refused.
LosesOrder(builder) ==
    builder.order # <<>> /\ builder.fetch = None /\ builder.offset = None
\* Mutant: the sort is dropped silently.
WrapSilently(builder) ==
    FromSource(Source("derived", [statement |-> Select(builder)]), builder.columns, builder.params,
               RenderErrors(builder))
Wrap(builder) ==
    FromSource(Source("derived", [statement |-> Select(builder)]), builder.columns, builder.params,
               When(LosesOrder(builder), Unsupported) \o RenderErrors(builder))
WrapIf(condition, builder) == IF condition THEN Wrap(builder) ELSE builder

ResultColumns(node) == FieldNames(Schema(node))
\* The builder with expressions rendered for it.
Yielding(builder, rendered) ==
    [builder EXCEPT !.params = rendered.params, !.errors = @ \o rendered.errors,
                    !.yielded = rendered.sql]
\* The expressions a row lambda yields, over the columns of the source.
RenderYields(node, builder) ==
    Yielding(builder,
        IF node.regions = <<>> THEN Rendered(<<>>, builder.params, <<Inconsistent>>)
        ELSE RenderAll(Yields(node), <<builder.columns>>, builder.params))

LiteralRow(row, kinds, exact) ==
    [i \in DOMAIN row |-> LiteralOf(row[i].of, row[i].value, kinds[i], exact)]
ValuesSource(node, params) ==
    LET kinds == [i \in DOMAIN Schema(node) |-> Schema(node)[i].ty.kind]
        rows == node.with.rows
        errors(row) == FlattenSeq([i \in DOMAIN row |-> LiteralErrors(row[i].of, kinds[i], TRUE)])
        empty == rows = <<>>
    IN  FromSource(Source("values", [rows |-> [r \in DOMAIN rows |-> LiteralRow(rows[r], kinds, TRUE)],
                                     columns |-> ResultColumns(node), kinds |-> kinds]),
                   ResultColumns(node), params,
                   (IF empty THEN When(kinds = <<>>, Unsupported)
                                  \o FlattenSeq([i \in DOMAIN kinds |-> TypeName(kinds[i])])
                    ELSE FlattenSeq([r \in DOMAIN rows |-> errors(rows[r])]))
                   \o QuoteList(ResultColumns(node)))

WhereYielded(builder) ==
    LET predicate == builder.yielded[1]
        both == Sql("binary", [operator |-> "And"], <<builder.where[1], predicate>>)
    IN  [builder EXCEPT !.where = Some(IF @ = None THEN predicate ELSE both), !.stage = StageWhere]
\* Mutant: a filter over a limited relation joins its WHERE.
BuildFilterUnwrapped(node, input) == WhereYielded(RenderYields(node, input))
BuildFilter(node, input) == WhereYielded(RenderYields(node, WrapIf(input.stage > StageWhere, input)))

\* Output expressions, named by the result schema, in place of the row.
ProjectOutput(builder, names, first) ==
    LET output == SubSeq(builder.yielded, first, Len(builder.yielded))
        matched == Len(output) = Len(names)
    IN  [builder EXCEPT
            !.projection = Some(IF matched THEN [i \in DOMAIN names |-> Output(output[i], names[i])]
                                ELSE <<>>),
            !.columns = names, !.stage = IF @ > StageProjection THEN @ ELSE StageProjection,
            !.errors = @ \o When(~matched, Inconsistent)]
BuildProject(node, input) ==
    ProjectOutput(RenderYields(node, WrapIf(input.projection # None \/ input.distinct, input)),
                  ResultColumns(node), 1)

BuildDistinct(input) ==
    [WrapIf(input.stage >= StageDistinct, input) EXCEPT !.distinct = TRUE, !.stage = StageDistinct]

BuildExists(node, input) ==
    FromSource(Source("exists", [statement |-> Select(input), column |-> ResultColumns(node)[1]]),
               ResultColumns(node), input.params, RenderErrors(input))

OrderYielded(builder, keys) ==
    LET matched == Len(builder.yielded) = Len(keys)
        key(i) == [sql |-> builder.yielded[i], direction |-> keys[i].direction,
                   null_order |-> keys[i].null_order]
    IN  [builder EXCEPT !.order = IF matched THEN [i \in DOMAIN keys |-> key(i)] ELSE <<>>,
                        !.stage = StageOrderBy, !.errors = @ \o When(~matched, Inconsistent)]
BuildSort(node, input) ==
    OrderYielded(RenderYields(node, WrapIf(input.stage >= StageOrderBy \/ input.projection # None, input)),
            node.with.keys)

LimitYielded(builder, has_offset, has_fetch) ==
    LET counts == builder.yielded
    IN  [builder EXCEPT
            !.offset = IF has_offset THEN Some(Head(counts)) ELSE None,
            !.fetch = IF has_fetch THEN Some(counts[IF has_offset THEN 2 ELSE 1]) ELSE None,
            !.stage = StageLimit]
LimitCounts(node, builder) ==
    Yielding(builder, RenderAll(Tail(node.operands), <<builder.columns>>, builder.params))
BuildLimit(node, input) ==
    LimitYielded(LimitCounts(node, WrapIf(input.stage >= StageLimit, input)),
                 node.with.has_offset, node.with.has_fetch)

\* The SELECT over two derived tables; a semi-join asks whether the right one has a match.
JoinOn(node, left, right, rendered) ==
    LET columns == ResultColumns(node)
        kind == node.with.kind
        semi == kind \in {"Semi", "Anti"}
        scope == <<left.columns, right.columns>>
        condition == rendered.sql[1]
        matched == Len(columns) = Len(left.columns) + (IF semi THEN 0 ELSE Len(right.columns))
        exists == Sql("exists", [from |-> right.from, negated |-> kind = "Anti"], <<condition>>)
        from == IF semi THEN left.from
                ELSE Source("join", [kind |-> kind, left |-> left.from, right |-> right.from,
                                     condition |-> condition])
    IN  [FromSource(from, columns, rendered.params,
                    left.errors \o right.errors \o rendered.errors \o When(~matched, Inconsistent))
         EXCEPT !.projection = Some([i \in DOMAIN columns |->
                                        Output(ScopeColumn(scope, i)[1], columns[i])]),
                !.where = IF semi THEN Some(exists) ELSE None, !.stage = StageProjection]
JoinSides(node, left, right) ==
    JoinOn(node, left, right,
        IF node.with.has_condition
        THEN RenderAll(Yields(node), <<left.columns, right.columns>>, right.params)
        ELSE Rendered(<<LiteralOf("boolean", TRUE, <<"boolean">>, FALSE)>>, right.params, <<>>))
\* Both sides become derived tables, and so does the joined SELECT.
BuildJoin(node, inputs) == Wrap(JoinSides(node, Wrap(inputs[1]), Wrap(inputs[2])))

BuildSet(node, inputs) ==
    FromSource(Source("set", [operator |-> node.with.operator, all |-> node.with.all,
                              statements |-> [i \in DOMAIN inputs |-> Select(inputs[i])]]),
               ResultColumns(node), Last(inputs).params,
               FlattenSeq([i \in DOMAIN inputs |->
                              When(LosesOrder(inputs[i]), Unsupported) \o RenderErrors(inputs[i])]))

GroupYielded(builder, names, keys) ==
    [ProjectOutput(builder, names, keys + 1) EXCEPT !.group = Some(SubSeq(builder.yielded, 1, keys))]
BuildAggregate(node, input) ==
    GroupYielded(RenderYields(node, Wrap(input)), ResultColumns(node), node.with.group_keys)
BuildWindow(node, input) == ProjectOutput(RenderYields(node, Wrap(input)), ResultColumns(node), 1)

RECURSIVE BuildRelation(_, _)
BuildInputs(operands, params) ==
    Folded(LAMBDA built, operand :
                 Append(built, BuildRelation(operand, IF built = <<>> THEN params
                                                      ELSE Last(built).params)),
             <<>>, operands)
BuildRelation(node, params) ==
    CASE node.op = "scan" ->
            FromSource(Source("table", [table |-> node.with.table]), node.with.columns, params,
                       QuoteIdentifier(<<node.with.table>>))
      [] node.op \in {"values", "empty"} -> ValuesSource(node, params)
      [] node.op = "filter" -> BuildFilter(node, BuildRelation(node.operands[1], params))
      [] node.op = "project" -> BuildProject(node, BuildRelation(node.operands[1], params))
      [] node.op = "distinct" -> BuildDistinct(BuildRelation(node.operands[1], params))
      [] node.op = "exists" -> BuildExists(node, BuildRelation(node.operands[1], params))
      [] node.op = "sort" -> BuildSort(node, BuildRelation(node.operands[1], params))
      [] node.op = "limit" -> BuildLimit(node, BuildRelation(node.operands[1], params))
      [] node.op = "aggregate" -> BuildAggregate(node, BuildRelation(node.operands[1], params))
      [] node.op = "window" -> BuildWindow(node, BuildRelation(node.operands[1], params))
      [] node.op = "join" -> BuildJoin(node, BuildInputs(node.operands, params))
      [] node.op = "set" -> BuildSet(node, BuildInputs(node.operands, params))
      [] OTHER -> FromSource(Source("none", <<>>), <<>>, params, <<Inconsistent>>)

\* A named type reaches the driver as text: the statement is wrapped once more to cast it.
FinishWire(statement, schema) ==
    LET output(i) ==
            LET column == ColumnRef(1, schema[i].name)
            IN  Output(IF IsCustom(schema[i].ty)
                       THEN Sql("cast", [kind |-> <<"utf8">>], <<column>>) ELSE column,
                       schema[i].name)
        derived == FromSource(Source("derived", [statement |-> statement]), <<>>, <<>>, <<>>)
    IN  IF \A i \in DOMAIN schema : ~IsCustom(schema[i].ty) THEN statement
        ELSE Select([derived EXCEPT !.projection = Some([i \in DOMAIN schema |-> output(i)])])

Finished(builder, schema) ==
    Rendered(FinishWire(Select(builder), schema), builder.params, RenderErrors(builder))
RenderModule(node) == Finished(BuildRelation(node, <<>>), Schema(node))

-----------------------------------------------------------------------------
(* Mutations.                                                                *)

ReturningTyped(node) ==
    [i \in DOMAIN node.with.returning |->
        [name |-> node.with.returning[i],
         text |-> \E f \in DOMAIN node.with.schema :
                     /\ node.with.schema[f].name = node.with.returning[i]
                     /\ IsCustom(node.with.schema[f].ty)]]
InsertOf(node, rendered) ==
    LET width == Len(node.with.columns)
        row(r) == SubSeq(rendered.sql, (r - 1) * width + 1, r * width)
    IN  Rendered([insert |-> node.with.table, columns |-> node.with.columns,
                  rows |-> [r \in 1..node.with.rows |-> row(r)],
                  conflict |-> node.with.conflict, returning |-> ReturningTyped(node)],
                 rendered.params,
                 rendered.errors \o QuoteList(node.with.columns)
                 \o QuoteIdentifier(<<node.with.table>>))
RenderInsert(node) == InsertOf(node, RenderAll(Yields(node), <<<<>>>>, <<>>))

UpdateOf(node, values, predicate) ==
    LET columns == node.with.assignments
    IN  Rendered([update |-> node.with.table,
                  set |-> [i \in DOMAIN columns |-> [column |-> columns[i], sql |-> values.sql[i]]],
                  where |-> predicate.sql, returning |-> ReturningTyped(node)],
                 predicate.params,
                 QuoteList(columns) \o values.errors \o predicate.errors
                 \o QuoteIdentifier(<<node.with.table>>))
\* The assignments are rendered before the predicate, though they are yielded after it.
RenderUpdate(node) ==
    LET scope == <<FieldNames(node.with.schema)>>
        behind(values) == UpdateOf(node, values, RenderValue(Head(Yields(node)), scope, values.params))
    IN  behind(RenderAll(Tail(Yields(node)), scope, <<>>))
DeleteOf(node, predicate) ==
    Rendered([delete |-> node.with.table, where |-> predicate.sql,
              returning |-> ReturningTyped(node)],
             predicate.params, predicate.errors \o QuoteIdentifier(<<node.with.table>>))
RenderDelete(node) ==
    DeleteOf(node, RenderValue(Head(Yields(node)), <<FieldNames(node.with.schema)>>, <<>>))

-----------------------------------------------------------------------------
StatementOf(rendered, result) ==
    [error |-> FirstError(rendered.errors), sql |-> rendered.sql, bind_order |-> rendered.params,
     result |-> result]
Refused(error) ==
    [error |-> error, sql |-> <<>>, bind_order |-> <<>>, result |-> "none"]
\* A module is verified, then rendered by what its root returns.
RenderStatement(module) ==
    LET node == module.returned
        result == IF module.terminator = "query_return" THEN "rows" ELSE "affected"
    IN  CASE ~VerifyModule(module) -> Refused("InvalidModule")
          [] node.op = "insert" -> StatementOf(RenderInsert(node), result)
          [] node.op = "update" -> StatementOf(RenderUpdate(node), result)
          [] node.op = "delete" -> StatementOf(RenderDelete(node), result)
          [] node.op \in LogicalOps /\ result = "rows" -> StatementOf(RenderModule(node), result)
          [] OTHER -> Refused(Unsupported)
==============================================================================
