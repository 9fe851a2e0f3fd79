---------------------------- MODULE QueryLowering ----------------------------
(***************************************************************************)
(* Lowering of a typed query into AfterBurner IR                             *)
(* (crates/jetorm-query/src/lowering.rs and lowering/write.rs).  The shape   *)
(* of the query alone decides the IR: a bound value enters as a parameter at *)
(* its position of the bind table.                                           *)
(*                                                                         *)
(* Lowering a scalar gives the value, the type the lowering ascribes to it   *)
(* and the errors met, in order; a query gives its module or its first error.*)
(***************************************************************************)
EXTENDS QueryBuilders

ColumnTypes(entity) == [i \in DOMAIN entity.columns |-> ColumnScalarType(entity.columns[i])]
Nullable(types) == [i \in DOMAIN types |-> WithNullability(types[i], TRUE)]
EntitySchema(entity) ==
    [i \in DOMAIN entity.columns |->
        Field(<<entity.columns[i].name>>, ColumnScalarType(entity.columns[i]))]
ColumnNames(entity, indexes) == [i \in DOMAIN indexes |-> <<entity.columns[indexes[i]].name>>]

-----------------------------------------------------------------------------
(* Scalars.                                                                  *)

Lowered(value, ty, errors) == [value |-> value, ty |-> ty, errors |-> errors]

WidenToNullable(lowered) ==
    LET target == WithNullability(lowered.ty, TRUE)
    IN  [lowered EXCEPT !.value = Cast(@, target), !.ty = target]

\* Two operands of one kind: the non-null one is cast to the nullable type.
UnifyNullability(left, right) ==
    IF left.ty.kind # right.ty.kind
    THEN [left |-> left, right |-> right, ty |-> left.ty,
          errors |-> left.errors \o right.errors \o <<"OperandKindMismatch">>]
    ELSE LET widened(side) ==
                 IF side.ty.nullable \/ left.ty = right.ty THEN side ELSE WidenToNullable(side)
         IN  [left |-> widened(left), right |-> widened(right), ty |-> widened(left).ty,
              errors |-> left.errors \o right.errors]

BinaryResultType(op, operand) ==
    IF op = "IsDistinctFrom" THEN Boolean(FALSE) ELSE Boolean(operand.nullable)

BinaryOf(op, unified, ty) ==
    Lowered(Binary(op, unified.left.value, unified.right.value, ty), ty, unified.errors)
CombineBinary(op, left, right) ==
    LET combined(unified) == BinaryOf(op, unified, BinaryResultType(op, unified.ty))
    IN  combined(UnifyNullability(left, right))

\* Membership pairs a scalar with an array, whatever the nullability of either.
Membership(left, right) ==
    LET ty == Boolean(left.ty.nullable)
    IN  Lowered(Binary("InArray", left.value, right.value, ty), ty, left.errors \o right.errors)

\* columns: the types the predicate takes its columns to have, and where in the
\* block's arguments they begin.
RECURSIVE LowerNode(_, _, _)
LowerNode(node, block, columns) ==
    CASE node.node = "column" ->
            LET position == columns.offset + node.index
            IN  Lowered(Argument(position, block[position]), columns.types[node.index], <<>>)
      [] node.node = "bind" -> Lowered(Parameter(node.position, node.ty), node.ty, <<>>)
      [] node.node = "unary" ->
            LET operand == LowerNode(node.operand, block, columns)
                ty == IF node.op \in {"IsNull", "IsNotNull"} THEN Boolean(FALSE) ELSE operand.ty
            IN  Lowered(Unary(node.op, operand.value, ty), ty, operand.errors)
      [] node.node = "binary" ->
            LET left == LowerNode(node.left, block, columns)
                right == LowerNode(node.right, block, columns)
            IN  IF node.op = "InArray" THEN Membership(left, right)
                ELSE CombineBinary(node.op, left, right)

OfEntity(entity) == [types |-> ColumnTypes(entity), offset |-> 0]

-----------------------------------------------------------------------------
(* Reads.  A pipeline is a relation and the errors met on the way.           *)

Rows(relation, errors) == [relation |-> relation, errors |-> errors]
ScanEntity(entity) ==
    Scan(entity.table, ColumnNames(entity, Positions(entity)), EntitySchema(entity))

\* One WHERE over a row, of every predicate there is, joined by AND.
Conjunction(lowered) ==
    LET and(unified) == BinaryOf("And", unified, unified.ty)
    IN  Folded(LAMBDA left, right : and(UnifyNullability(left, right)), lowered[1], Tail(lowered))
FilterTo(rows, condition) ==
    Rows(Filter(rows.relation, condition.value), rows.errors \o condition.errors)
FilterBy(rows, predicates) ==
    IF predicates = <<>> THEN rows
    ELSE FilterTo(rows, Conjunction([i \in DOMAIN predicates |->
                     LowerNode(predicates[i].tree, FieldTypes(Schema(rows.relation)),
                               predicates[i].columns)]))
Predicates(filter, columns) == [i \in DOMAIN filter |-> [tree |-> filter[i], columns |-> columns]]

DistinctIf(rows, distinct) ==
    IF distinct THEN [rows EXCEPT !.relation = Distinct(@)] ELSE rows

SortBy(rows, order) ==
    LET types == FieldTypes(Schema(rows.relation))
        keys == [i \in DOMAIN order |->
                    [direction |-> order[i].direction, null_order |-> order[i].null_order]]
        yields == [i \in DOMAIN order |-> Argument(order[i].column, types[order[i].column])]
    IN  IF order = <<>> THEN rows ELSE [rows EXCEPT !.relation = Sort(@, keys, yields)]

\* Row counts are parameters after the values of the predicates, offset first.
LimitTo(rows, query) ==
    LET slots == Len(query.offset \o query.fetch)
        counts == [i \in 1..slots |->
                      Parameter(Len(query.binds) + i - 1, Scalar(Int64, FALSE))]
    IN  IF slots = 0 THEN rows
        ELSE [rows EXCEPT !.relation =
                 Limit(@, query.offset # None, query.fetch # None, counts)]

\* SQL evaluation order: filter, distinct, sort, limit.
LowerRowStages(rows, predicates, distinct, order, query) ==
    LimitTo(SortBy(DistinctIf(FilterBy(rows, predicates), distinct), order), query)
LowerPipeline(query, order) ==
    LowerRowStages(Rows(ScanEntity(query.entity), <<>>),
                   Predicates(query.filter, OfEntity(query.entity)), query.distinct, order, query)

\* The projection comes last: everything before it addresses the full row.
ProjectTo(rows, query) ==
    LET types == FieldTypes(Schema(rows.relation))
        columns == query.projection[1]
        schema == [i \in DOMAIN columns |-> EntitySchema(query.entity)[columns[i]]]
        yields == [i \in DOMAIN columns |-> Argument(columns[i], types[columns[i]])]
    IN  IF query.projection = None THEN rows
        ELSE [relation |-> Project(rows.relation, schema, yields),
              errors |-> rows.errors
                         \o (IF query.distinct THEN <<"DistinctOverProjection">> ELSE <<>>)]
LowerSelect(query) == ProjectTo(LowerPipeline(query, query.order), query)

LowerCount(query) ==
    LET ty == Scalar(Int64, FALSE)
        call == AggregateCall("count", FALSE, TRUE, <<>>, ty)
    IN  [LowerPipeline(query, <<>>) EXCEPT
            !.relation = Aggregate(@, 0, <<Field(<<"count">>, ty)>>, <<call>>)]

\* DISTINCT stays: with an offset it decides whether anything is left.
LowerExists(query) ==
    [LowerPipeline(query, <<>>) EXCEPT
        !.relation = Exists(@, <<Field(<<"exists">>, Boolean(FALSE))>>)]

\* LEFT JOIN of a relation's target: the condition sees the types of the two rows as they
\* are.  joined: the columns the target adds to the output.
LeftJoin(rows, relation, joined) ==
    LET left == Schema(rows.relation)
        target == ScanEntity(relation.target)
        block == FieldTypes(left) \o ColumnTypes(relation.target)
        key(position) == Lowered(Argument(position, block[position]), block[position], <<>>)
        on(condition) ==
            Rows(Join("Left", rows.relation, target, left \o joined, <<condition.value>>),
                 rows.errors \o condition.errors)
    IN  on(CombineBinary("Equal", key(relation.source_column),
                         key(Len(left) + relation.target_column)))
JoinedColumns(entity, prefix) ==
    [i \in DOMAIN entity.columns |->
        Field(prefix \o <<entity.columns[i].name>>, ColumnScalarType(entity.columns[i]))]
\* Mutant: the joined columns keep their types.
AppendLeftJoinUnwidened(rows, relation, prefix) ==
    LeftJoin(rows, relation, JoinedColumns(relation.target, prefix))
\* In the output the target's columns are widened and their names behind a prefix.
AppendLeftJoin(rows, relation, prefix) ==
    LET columns == JoinedColumns(relation.target, prefix)
    IN  LeftJoin(rows, relation, [i \in DOMAIN columns |->
                     Field(columns[i].name, WithNullability(columns[i].ty, TRUE))])

\* The columns of a joined entity, null-extended, behind those before it.
OfJoined(entity, offset) == [types |-> Nullable(ColumnTypes(entity)), offset |-> offset]
JoinStages(query, joined, predicates) ==
    [LowerRowStages(joined, predicates, FALSE, query.order, query) EXCEPT
        !.errors = IF query.distinct THEN <<"DistinctOverJoin">> ELSE @]
LowerJoin(query) ==
    LET relation == query.relations[1]
        joined == AppendLeftJoin(Rows(ScanEntity(query.entity), <<>>), relation,
                                 <<relation.name>>)
    IN  JoinStages(query, joined,
            Predicates(query.filter, OfEntity(query.entity))
            \o Predicates(query.related,
                          OfJoined(relation.target, Len(query.entity.columns))))

\* Two edges of one name are told apart by a suffix of the second prefix.
LowerJoin2(query) ==
    LET first == query.relations[1]
        second == query.relations[2]
        prefix == IF first.name = second.name THEN <<second.name, "2">> ELSE <<second.name>>
        source == Len(query.entity.columns)
        joined == AppendLeftJoin(
                      AppendLeftJoin(Rows(ScanEntity(query.entity), <<>>), first, <<first.name>>),
                      second, prefix)
    IN  JoinStages(query, joined,
            Predicates(query.filter, OfEntity(query.entity))
            \o Predicates(query.related, OfJoined(first.target, source))
            \o Predicates(query.second,
                          OfJoined(second.target, source + Len(first.target.columns))))

\* The region of an aggregate yields the group keys, then the output row, which repeats them.
GroupRows(rows, query, keys, specs) ==
    LET types == FieldTypes(Schema(rows.relation))
        keyFields == [i \in DOMAIN keys |-> EntitySchema(query.entity)[keys[i]]]
        aggregateFields == [i \in DOMAIN specs |->
                               Field(<<"__agg", ToString(i - 1), specs[i].function>>, specs[i].ty)]
        keyValues == [i \in DOMAIN keys |-> Argument(keys[i], types[keys[i]])]
        calls == [i \in DOMAIN specs |->
                     AggregateCall(specs[i].function, FALSE, specs[i].column = None,
                         [j \in DOMAIN specs[i].column |->
                             Argument(specs[i].column[j], types[specs[i].column[j]])],
                         specs[i].ty)]
    IN  [rows EXCEPT !.relation = Aggregate(@, Len(keys), keyFields \o aggregateFields,
                                            keyValues \o keyValues \o calls)]
HavingAndOrder(query, grouped) ==
    LET output == [types |-> FieldTypes(Schema(grouped.relation)), offset |-> 0]
        keys == query.group[1].keys
        order == [i \in DOMAIN keys |-> OrderKey(i, "Ascending", "Last")]
    IN  SortBy(FilterBy(grouped, Predicates(query.having, output)),
               IF query.group[1].ordered THEN order ELSE <<>>)
LowerGrouped(query) ==
    LET group == query.group[1]
        rows == LowerRowStages(Rows(ScanEntity(query.entity), <<>>),
                    Predicates(query.filter, OfEntity(query.entity)), query.distinct, <<>>,
                    [query EXCEPT !.offset = None, !.fetch = None])
        grouped == GroupRows(rows, query, group.keys, group.aggregates)
    IN  [HavingAndOrder(query, grouped) EXCEPT !.errors =
            (IF query.offset # None \/ query.fetch # None THEN <<"LimitOverGroup">> ELSE <<>>)
            \o (IF IsInjective(group.keys) THEN <<>> ELSE <<"DuplicateGroupKey">>) \o @]

-----------------------------------------------------------------------------
(* Mutations.                                                                *)

ReturningColumns(query) ==
    IF query.returning THEN ColumnNames(query.entity, Positions(query.entity)) ELSE <<>>
MutationResultType(query) ==
    IF query.returning THEN Relation(EntitySchema(query.entity)) ELSE Unit

\* target: the arbiter columns, or None for whatever unique index; assignments: the columns
\* that take the value the row would have been inserted with.
ConflictClause(action, target, columns) ==
    [action |-> action, target |-> target, assignments |-> columns]
LowerConflict(insert) ==
    LET entity == insert.entity
        conflict == insert.conflict
        key == PrimaryKey(entity)
        keyTarget == IF key = <<>> THEN None ELSE Some(ColumnNames(entity, key))
        target == Some(ColumnNames(entity, conflict.target))
        others == SelectSeq(Included(entity), LAMBDA i : ~entity.columns[i].key)
    IN  CASE conflict.do = "error" -> None
          [] conflict.do = "nothing" -> Some(ConflictClause("nothing", keyTarget, <<>>))
          [] conflict.do = "update_inserted" ->
                Some(ConflictClause("update", keyTarget, ColumnNames(entity, others)))
          [] conflict.do = "targeted_ignore" -> Some(ConflictClause("nothing", target, <<>>))
          [] conflict.do = "targeted_update" ->
                Some(ConflictClause("update", target, ColumnNames(entity, conflict.update)))

\* Parameters in row-major order.
LowerInsert(insert) ==
    LET included == Included(insert.entity)
        width == Len(included)
        ty(i) == ColumnScalarType(insert.entity.columns[included[((i - 1) % width) + 1]])
    IN  Mutation("insert",
            [table |-> insert.entity.table, schema |-> EntitySchema(insert.entity),
             columns |-> ColumnNames(insert.entity, included), rows |-> Len(insert.rows),
             conflict |-> LowerConflict(insert), returning |-> ReturningColumns(insert)],
            MutationResultType(insert), <<>>,
            [i \in 1..(Len(insert.rows) * width) |-> Parameter(i - 1, ty(i))])

\* The rows a mutation is for; without a filter, a literal TRUE.
MutationPredicate(query) ==
    IF query.filter = None THEN Lowered(Literal("boolean", TRUE, Boolean(FALSE)), Boolean(FALSE), <<>>)
    ELSE LowerNode(query.filter[1], ColumnTypes(query.entity), OfEntity(query.entity))
LowerUpdate(update) ==
    LET entity == update.entity
        columns == [i \in DOMAIN update.assignments |-> update.assignments[i].column]
        values == [i \in DOMAIN columns |->
                      Parameter(update.assignments[i].position,
                                ColumnScalarType(entity.columns[columns[i]]))]
    IN  Mutation("update",
            [table |-> entity.table, schema |-> EntitySchema(entity),
             assignments |-> ColumnNames(entity, columns), returning |-> ReturningColumns(update)],
            MutationResultType(update), ColumnTypes(entity),
            <<MutationPredicate(update).value>> \o values)
LowerDelete(delete) ==
    Mutation("delete",
        [table |-> delete.entity.table, schema |-> EntitySchema(delete.entity),
         returning |-> ReturningColumns(delete)],
        MutationResultType(delete), ColumnTypes(delete.entity),
        <<MutationPredicate(delete).value>>)

-----------------------------------------------------------------------------
ModuleOf(rows) ==
    [error |-> FirstError(rows.errors), module |-> Module("query_return", rows.relation)]
MutationModule(query, operation) ==
    [error |-> FirstError(<<Validate(query)>> \o
                          (IF query.kind = "insert" THEN <<>> ELSE MutationPredicate(query).errors)),
     module |-> Module(IF query.returning THEN "query_return" ELSE "command_return", operation)]

IntoIr(query) ==
    CASE query.kind = "select" -> ModuleOf(LowerSelect(query))
      [] query.kind = "count" -> ModuleOf(LowerCount(query))
      [] query.kind = "exists" -> ModuleOf(LowerExists(query))
      [] query.kind = "join" -> ModuleOf(LowerJoin(query))
      [] query.kind = "join2" -> ModuleOf(LowerJoin2(query))
      [] query.kind = "grouped" -> ModuleOf(LowerGrouped(query))
      [] query.kind = "insert" -> MutationModule(query, LowerInsert(query))
      [] query.kind = "update" -> MutationModule(query, LowerUpdate(query))
      [] query.kind = "delete" -> MutationModule(query, LowerDelete(query))
==============================================================================
