---------------------------- MODULE QueryBuilders ----------------------------
(***************************************************************************)
(* The typed query builders of crates/jetorm-query: expressions, selects and *)
(* what is derived from them (counts, existence tests, projections, joins,   *)
(* groupings), and mutations.  A builder call is a record; a query is what   *)
(* the calls of a program make of a fresh builder.  Values leave the         *)
(* expressions for a bind table as they are captured, so that the shape of a *)
(* query, which is the key of its cached statement, holds none of them.      *)
(***************************************************************************)
EXTENDS QueryIr, SequencesExt

CONSTANTS
    Null,    \* the SQL NULL
    I64Max,  \* the greatest i64
    U32Max   \* the greatest u32

ASSUME WidthAssumption == I64Max \in Nat /\ U32Max \in Nat

-----------------------------------------------------------------------------
(* Entity metadata, as the derive macro writes it.                           *)

Column(name, kind, nullable, auto, key) ==
    [name |-> name, kind |-> kind, nullable |-> nullable, auto |-> auto, key |-> key]
Entity(table, columns) == [table |-> table, columns |-> columns]
Positions(entity) == [i \in DOMAIN entity.columns |-> i]
PrimaryKey(entity) == SelectSeq(Positions(entity), LAMBDA i : entity.columns[i].key)
Included(entity) == SelectSeq(Positions(entity), LAMBDA i : ~entity.columns[i].auto)
ColumnScalarType(column) == Scalar(column.kind, column.nullable)

\* The edge from a column of one entity to a column of another.
EntityRelation(name, source, target, sourceColumn, targetColumn) ==
    [name |-> name, source |-> source, target |-> target,
     source_column |-> sourceColumn, target_column |-> targetColumn]

-----------------------------------------------------------------------------
(* Expressions.                                                              *)

ColumnNode(index) == [node |-> "column", index |-> index]
ValueNode(value, ty) == [node |-> "value", value |-> value, ty |-> ty]
BindNode(position, ty) == [node |-> "bind", position |-> position, ty |-> ty]
UnaryNode(op, operand) == [node |-> "unary", op |-> op, operand |-> operand]
BinaryNode(op, left, right) == [node |-> "binary", op |-> op, left |-> left, right |-> right]

\* The operand adopts the typing of the column.
Compare(entity, op, index, value) ==
    BinaryNode(op, ColumnNode(index), ValueNode(value, ColumnScalarType(entity.columns[index])))
NullTest(op, index) == UnaryNode(op, ColumnNode(index))
\* A list binds as one array, whatever its length.
IsIn(entity, index, values) ==
    BinaryNode("InArray", ColumnNode(index),
               ValueNode(values, Scalar(ArrayOf(entity.columns[index].kind), FALSE)))
Between(entity, index, low, high) ==
    BinaryNode("And", Compare(entity, "GreaterThanOrEqual", index, low),
               Compare(entity, "LessThanOrEqual", index, high))
And(left, right) == BinaryNode("And", left, right)
Or(left, right) == BinaryNode("Or", left, right)
Not(operand) == UnaryNode("Not", operand)
KeyEqualities(entity, values) ==
    LET equality(i) == Compare(entity, "Equal", PrimaryKey(entity)[i], values[i])
    IN  Folded(And, equality(1), [i \in 1..(Len(values) - 1) |-> equality(i + 1)])

OrderKey(index, direction, nulls) ==
    [column |-> index, direction |-> direction, null_order |-> nulls]

\* Values are numbered in pre-order, after those the query already holds.
RECURSIVE Normalize(_, _)
Normalize(node, binds) ==
    CASE node.node = "column" -> [tree |-> node, binds |-> binds]
      [] node.node = "value" ->
            [tree |-> BindNode(Len(binds), node.ty), binds |-> Append(binds, node.value)]
      [] node.node = "unary" ->
            LET operand == Normalize(node.operand, binds)
            IN  [tree |-> [node EXCEPT !.operand = operand.tree], binds |-> operand.binds]
      [] node.node = "binary" ->
            LET left == Normalize(node.left, binds)
                right == Normalize(node.right, left.binds)
            IN  [tree |-> BinaryNode(node.op, left.tree, right.tree), binds |-> right.binds]

\* Successive predicates are joined by AND.
MergeAnd(existing, normalized) ==
    IF existing = None THEN Some(normalized) ELSE Some(And(existing[1], normalized))

-----------------------------------------------------------------------------
(* Aggregates.  The output type is fixed by the type of the column.          *)

SumKind(kind) ==
    CASE kind \in {<<"int16">>, <<"int32">>} -> Int64
      [] kind = Int64 -> <<"decimal">>
      [] OTHER -> kind
AvgKind(kind) == IF kind \in {<<"float32">>, <<"float64">>} THEN <<"float64">> ELSE <<"decimal">>

\* column: None for count(*)
AggregateSpec(function, column, ty) == [function |-> function, column |-> column, ty |-> ty]
CountRows == AggregateSpec("count", None, Scalar(Int64, FALSE))
Over(entity, function, index) ==
    LET column == entity.columns[index]
        kind == CASE function = "sum" -> SumKind(column.kind)
                  [] function = "avg" -> AvgKind(column.kind)
                  [] function \in {"min", "max"} -> column.kind
    IN  AggregateSpec(function, Some(index), Scalar(kind, column.nullable))
\* An aggregate in HAVING: a position after the keys, compared with a plain value.
HavingCompare(op, keyWidth, specs, i, value) ==
    BinaryNode(op, ColumnNode(keyWidth + i), ValueNode(value, WithNullability(specs[i].ty, FALSE)))
HavingNullTest(op, keyWidth, i) == UnaryNode(op, ColumnNode(keyWidth + i))

-----------------------------------------------------------------------------
(* Queries.  The builders that derive from a select keep all it holds.       *)

NewSelect(entity) ==
    [kind |-> "select", entity |-> entity, filter |-> None, binds |-> <<>>, order |-> <<>>,
     offset |-> None, fetch |-> None, distinct |-> FALSE, projection |-> None,
     relations |-> <<>>, related |-> None, second |-> None, group |-> None, having |-> None]
NewInsert(entity, row) ==
    [kind |-> "insert", entity |-> entity, rows |-> <<row>>,
     conflict |-> [do |-> "error", target |-> <<>>, update |-> <<>>], returning |-> FALSE]
NewUpdate(entity) ==
    [kind |-> "update", entity |-> entity, filter |-> None, assignments |-> <<>>,
     binds |-> <<>>, all_rows |-> FALSE, returning |-> FALSE]
NewDelete(entity) ==
    [kind |-> "delete", entity |-> entity, filter |-> None, binds |-> <<>>,
     all_rows |-> FALSE, returning |-> FALSE]

\* A predicate enters the query in one of its four places.
Filter_(query, expr) ==
    LET normalized == Normalize(expr, query.binds)
    IN  [query EXCEPT !.binds = normalized.binds, !.filter = MergeAnd(@, normalized.tree)]
FilterRelated(query, expr) ==
    LET normalized == Normalize(expr, query.binds)
    IN  [query EXCEPT !.binds = normalized.binds, !.related = MergeAnd(@, normalized.tree)]
FilterRelated2(query, expr) ==
    LET normalized == Normalize(expr, query.binds)
    IN  [query EXCEPT !.binds = normalized.binds, !.second = MergeAnd(@, normalized.tree)]
Having(query, expr) ==
    LET normalized == Normalize(expr, query.binds)
    IN  [query EXCEPT !.binds = normalized.binds, !.having = MergeAnd(@, normalized.tree)]

OrderBy(query, key) == [query EXCEPT !.order = Append(@, key)]
\* A key over the related entity addresses the joined row.
OrderByRelated(query, key) ==
    OrderBy(query, [key EXCEPT !.column = @ + Len(query.entity.columns)])
SelectAs(query, columns) == [query EXCEPT !.projection = Some(columns)]
Also(query, relation) ==
    [query EXCEPT !.kind = IF @ = "select" THEN "join" ELSE "join2",
                  !.relations = Append(@, relation)]
GroupBy(query, keys, aggregates) ==
    [query EXCEPT !.kind = "grouped",
                  !.group = Some([keys |-> keys, aggregates |-> aggregates, ordered |-> FALSE])]
IntoCount(query) == [query EXCEPT !.kind = "count", !.order = <<>>, !.projection = None]

Set_(query, index, value) ==
    [query EXCEPT !.assignments = Append(@, [column |-> index, position |-> Len(query.binds)]),
                  !.binds = Append(@, value)]

\* One call of a builder.
Apply(query, call) ==
    CASE call.call = "filter" -> Filter_(query, call.expr)
      [] call.call = "filter_related" -> FilterRelated(query, call.expr)
      [] call.call = "filter_related2" -> FilterRelated2(query, call.expr)
      [] call.call = "having" -> Having(query, call.expr)
      [] call.call = "order_by" -> OrderBy(query, call.key)
      [] call.call = "order_by_related" -> OrderByRelated(query, call.key)
      [] call.call = "order_by_keys" -> [query EXCEPT !.group[1].ordered = TRUE]
      [] call.call = "limit" -> [query EXCEPT !.fetch = Some(call.count)]
      [] call.call = "offset" -> [query EXCEPT !.offset = Some(call.count)]
      [] call.call = "distinct" -> [query EXCEPT !.distinct = TRUE]
      [] call.call = "select_as" -> SelectAs(query, call.columns)
      [] call.call = "also" -> Also(query, call.relation)
      [] call.call = "group_by" -> GroupBy(query, call.columns, call.aggregates)
      [] call.call = "into_count" -> IntoCount(query)
      [] call.call = "exists" -> [query EXCEPT !.kind = "exists"]
      [] call.call = "set" -> Set_(query, call.column, call.value)
      [] call.call = "all_rows" -> [query EXCEPT !.all_rows = TRUE]
      [] call.call = "returning" -> [query EXCEPT !.returning = TRUE]
      [] call.call = "values" -> [query EXCEPT !.rows = Append(@, call.row)]
      [] call.call = "on_conflict" -> [query EXCEPT !.conflict = call.conflict]

Fresh(program) ==
    CASE program.start = "find" -> NewSelect(program.entity)
      [] program.start = "insert" -> NewInsert(program.entity, program.row)
      [] program.start = "update" -> NewUpdate(program.entity)
      [] program.start = "delete" -> NewDelete(program.entity)
Build(program) == Folded(Apply, Fresh(program), program.calls)

-----------------------------------------------------------------------------
(* What executing a query takes from it.                                     *)

\* Row counts bind as i64, saturated.
CountBind(count) == IF count > I64Max THEN I64Max ELSE count
PushCountBinds(binds, offset, fetch) ==
    LET counts == offset \o fetch
    IN  binds \o [i \in DOMAIN counts |-> CountBind(counts[i])]
InsertBinds(insert) ==
    LET included == Included(insert.entity)
        width == Len(included)
    IN  [i \in 1..(Len(insert.rows) * width) |->
            insert.rows[((i - 1) \div width) + 1][included[((i - 1) % width) + 1]]]
Binds(query) ==
    CASE query.kind = "insert" -> InsertBinds(query)
      [] query.kind \in {"update", "delete"} -> query.binds
      [] OTHER -> PushCountBinds(query.binds, query.offset, query.fetch)

Statement(kind) ==
    [kind |-> kind, rows |-> 0, conflict |-> None, columns |-> <<>>, all_rows |-> FALSE,
     returning |-> FALSE]
\* What is there to tell a query from others, whatever its values; a mutation has no more.
Shape(entity, filter, statement) ==
    [entity |-> entity, filter |-> filter, order |-> <<>>, has_offset |-> FALSE,
     has_fetch |-> FALSE, distinct |-> FALSE, projection |-> None, statement |-> statement,
     join |-> <<>>, group |-> None, related |-> None, having |-> None]
ForMutation(query, filter, statement) == Shape(query.entity, filter, statement)
\* A count, an existence test and a grouping have no order and no projection; a second
\* related filter stands where a grouping has its HAVING.
ForReadOf(query, related) ==
    LET rows == query.kind \in {"select", "join", "join2"}
        kind == IF query.kind \in {"count", "exists"} THEN query.kind ELSE "select"
    IN  [Shape(query.entity, query.filter, Statement(kind)) EXCEPT
            !.order = IF rows THEN query.order ELSE <<>>,
            !.has_offset = query.offset # None, !.has_fetch = query.fetch # None,
            !.distinct = query.distinct,
            !.projection = IF rows THEN query.projection ELSE None,
            !.join = query.relations, !.group = query.group,
            !.related = related, !.having = query.having \o query.second]
\* Mutant: a filter over the related entity is left out.
ForReadUnrelated(query) == ForReadOf(query, None)
ForRead(query) == ForReadOf(query, query.related)
ShapeOf(query) ==
    CASE query.kind = "insert" ->
            ForMutation(query, None,
                [Statement("insert") EXCEPT !.rows = Len(query.rows),
                     !.conflict = Some(query.conflict), !.returning = query.returning])
      [] query.kind = "update" ->
            ForMutation(query, query.filter,
                [Statement("update") EXCEPT
                     !.columns = [i \in DOMAIN query.assignments |-> query.assignments[i].column],
                     !.all_rows = query.all_rows, !.returning = query.returning])
      [] query.kind = "delete" ->
            ForMutation(query, query.filter,
                [Statement("delete") EXCEPT !.all_rows = query.all_rows,
                     !.returning = query.returning])
      [] OTHER -> ForRead(query)

-----------------------------------------------------------------------------
(* What is checked of a query before its statement is looked up.             *)

Check(holds, error) == IF holds THEN ok ELSE error

\* Positions of the IR are 32 bits wide.
CapacityError(binds) == Check(binds <= U32Max + 1, "CapacityExceeded")

RowError(entity, row) ==
    IF Len(row) # Len(entity.columns) THEN "ModelWidthMismatch"
    ELSE Check(\A i \in DOMAIN entity.columns :
                  entity.columns[i].auto \/ entity.columns[i].nullable \/ row[i] # Null,
               "NullForRequiredColumn")
ArbiterError(insert, index) ==
    FirstError(<<Check(~insert.entity.columns[index].auto, "UpsertKeyGenerated"),
                 Check(\A r \in DOMAIN insert.rows : insert.rows[r][index] # Null,
                       "UpsertNullArbiter")>>)
ValidateArbiter(insert) ==
    FirstError([i \in DOMAIN insert.conflict.target |->
                   ArbiterError(insert, insert.conflict.target[i])])
ConflictError(insert) ==
    LET columns == insert.entity.columns
        key == PrimaryKey(insert.entity)
        target == insert.conflict.target
        update == insert.conflict.update
        assigned(i) == FirstError(<<
            Check(~columns[update[i]].auto, "UpsertAssignsGenerated"),
            Check(update[i] \notin ToSet(target), "UpsertAssignsTarget")>>)
    IN  CASE insert.conflict.do \in {"error", "nothing"} -> ok
          [] insert.conflict.do = "targeted_ignore" -> ValidateArbiter(insert)
          [] insert.conflict.do = "update_inserted" -> FirstError(<<
                Check(key # <<>>, "MissingPrimaryKey"),
                Check(\A i \in DOMAIN key : ~columns[key[i]].auto, "UpsertKeyGenerated"),
                Check(\E i \in DOMAIN columns : ~columns[i].auto /\ ~columns[i].key,
                      "EmptyUpsertUpdate")>>)
          [] insert.conflict.do = "targeted_update" -> FirstError(<<
                ValidateArbiter(insert),
                Check(update # <<>>, "EmptyUpsertUpdate"),
                FirstError([i \in DOMAIN update |-> assigned(i)])>>)
ValidateInsert(insert) == FirstError(<<
    FirstError([r \in DOMAIN insert.rows |-> RowError(insert.entity, insert.rows[r])]),
    Check(Included(insert.entity) # <<>>, "EmptyInsert"),
    Check(Len(insert.rows) <= U32Max, "CapacityExceeded"),
    CapacityError(Len(insert.rows) * Len(Included(insert.entity))),
    ConflictError(insert)>>)
RequireBounded(query) == Check(query.filter # None \/ query.all_rows, "UnboundedMutation")
AssignmentError(update, i) ==
    LET assignment == update.assignments[i]
    IN  FirstError(<<
            Check(\A j \in 1..(i - 1) : update.assignments[j].column # assignment.column,
                  "DuplicateAssignment"),
            Check(\/ update.binds[assignment.position + 1] # Null
                  \/ update.entity.columns[assignment.column].nullable,
                  "NullForRequiredColumn")>>)
ValidateUpdate(update) == FirstError(<<
    Check(update.assignments # <<>>, "EmptyUpdate"),
    RequireBounded(update),
    CapacityError(Len(update.binds)),
    FirstError([i \in DOMAIN update.assignments |-> AssignmentError(update, i)])>>)
ValidateDelete(delete) == FirstError(<<RequireBounded(delete), CapacityError(Len(delete.binds))>>)
Validate(query) ==
    CASE query.kind = "insert" -> ValidateInsert(query)
      [] query.kind = "update" -> ValidateUpdate(query)
      [] query.kind = "delete" -> ValidateDelete(query)
      [] OTHER -> ok
==============================================================================
