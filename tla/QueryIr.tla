------------------------------- MODULE QueryIr -------------------------------
(***************************************************************************)
(* The operations of AfterBurner IR (crates/afterburner/src/ir/model/       *)
(* operation.rs, types.rs and mutation.rs).  An operation is a record of its *)
(* kind, operands, result type and regions; a value is the operation that    *)
(* computes it, so a module is the tree its root terminator returns.  Every  *)
(* region here has the one block the row lambdas of the dialect have.  The   *)
(* arenas, handles and use lists that hold operations together in memory are *)
(* the subject of IrModule and IrEditor.                                     *)
(***************************************************************************)
EXTENDS Integers, Sequences

\* An optional value is a sequence of at most one.
None == <<>>
Some(x) == <<x>>

\* The same sequence, with nothing left to compute in it: a concatenation is its elements.
Computed(values) == values \o <<>>

\* op(...op(op(base, values[1]), values[2])..., values[n])
Folded(op(_, _), base, values) ==
    LET fold[n \in 0..Len(values)] == IF n = 0 THEN base ELSE op(fold[n - 1], values[n])
    IN  fold[Len(values)]

\* Of the outcomes of several checks, the first that is an error.
ok == "ok"
FirstError(checks) ==
    LET failed == SelectSeq(checks, LAMBDA check : check # ok)
    IN  IF failed = <<>> THEN ok ELSE failed[1]

-----------------------------------------------------------------------------
(* Types.  The kind of a scalar is a sequence so that an array can carry the *)
(* kind of its element; a named type is <<"custom", name>>.                  *)

Scalar(kind, nullable) == [kind |-> kind, nullable |-> nullable]
Boolean(nullable) == Scalar(<<"boolean">>, nullable)
Int64 == <<"int64">>
ArrayOf(kind) == <<"array">> \o kind
Relation(schema) == [fields |-> schema]
Unit == [unit |-> TRUE]

IsScalar(ty) == "kind" \in DOMAIN ty
IsRelation(ty) == "fields" \in DOMAIN ty
IsBoolean(ty) == IsScalar(ty) /\ ty.kind = <<"boolean">>
IsInteger(ty) == IsScalar(ty) /\ ty.kind \in {<<"int16">>, <<"int32">>, Int64}
IsCustom(ty) == IsScalar(ty) /\ ty.kind[1] = "custom"
WithNullability(ty, nullable) == [ty EXCEPT !.nullable = nullable]

Field(name, ty) == [name |-> name, ty |-> ty]
FieldTypes(schema) == [i \in DOMAIN schema |-> schema[i].ty]
FieldNames(schema) == [i \in DOMAIN schema |-> schema[i].name]

-----------------------------------------------------------------------------
(* Operations.                                                               *)

Op(op, with, operands, result, regions) ==
    [op |-> op, with |-> with, operands |-> operands, result |-> result, regions |-> regions]
Region(arguments, yields) == [arguments |-> arguments, yields |-> yields]
Schema(node) == node.result.fields
Yields(node) == node.regions[1].yields

LogicalOps == {"scan", "values", "empty", "filter", "project", "join", "aggregate", "window",
               "sort", "limit", "distinct", "exists", "set"}
MutationOps == {"insert", "update", "delete"}
ScalarOps == {"literal", "parameter", "unary", "binary", "call", "cast", "case",
              "aggregate_call", "window_call"}

\* A block argument is a value without a defining operation.
Argument(index, ty) == Op("argument", [index |-> index], <<>>, ty, <<>>)
Parameter(position, ty) == Op("parameter", [position |-> position], <<>>, ty, <<>>)
\* of: the variant of Literal, value: what it holds
Literal(of, value, ty) == Op("literal", [of |-> of, value |-> value], <<>>, ty, <<>>)
Unary(operator, operand, ty) == Op("unary", [operator |-> operator], <<operand>>, ty, <<>>)
Binary(operator, left, right, ty) ==
    Op("binary", [operator |-> operator], <<left, right>>, ty, <<>>)
Cast(operand, to) == Op("cast", [to |-> to], <<operand>>, to, <<>>)
AggregateCall(function, distinct, star, operands, ty) ==
    Op("aggregate_call", [function |-> function, distinct |-> distinct, star |-> star],
       operands, ty, <<>>)
\* Conditions and values in turn, then the value for no condition.
Case(arms, operands, ty) == Op("case", [arms |-> arms], operands, ty, <<>>)
\* layout: how many operands are arguments and partition keys, and the order keys that follow
WindowCall(function, layout, frame, operands, ty) ==
    Op("window_call", [function |-> function, layout |-> layout, frame |-> frame],
       operands, ty, <<>>)

Scan(table, columns, schema) ==
    Op("scan", [table |-> table, columns |-> columns], <<>>, Relation(schema), <<>>)
\* The operations that keep their input's schema.
Same(op, with, input, regions) == Op(op, with, <<input>>, input.result, regions)
Filter(input, predicate) ==
    Same("filter", <<>>, input, <<Region(FieldTypes(Schema(input)), <<predicate>>)>>)
Distinct(input) == Same("distinct", <<>>, input, <<>>)
Sort(input, keys, yields) ==
    Same("sort", [keys |-> keys], input, <<Region(FieldTypes(Schema(input)), yields)>>)
Limit(input, hasOffset, hasFetch, counts) ==
    Op("limit", [has_offset |-> hasOffset, has_fetch |-> hasFetch], <<input>> \o counts,
       input.result, <<>>)
Project(input, schema, yields) ==
    Op("project", <<>>, <<input>>, Relation(schema),
       <<Region(FieldTypes(Schema(input)), yields)>>)
Exists(input, schema) == Op("exists", <<>>, <<input>>, Relation(schema), <<>>)
Join(kind, left, right, schema, condition) ==
    Op("join", [kind |-> kind, has_condition |-> condition # <<>>], <<left, right>>,
       Relation(schema),
       IF condition = <<>> THEN <<>>
       ELSE <<Region(FieldTypes(Schema(left)) \o FieldTypes(Schema(right)), condition)>>)
Aggregate(input, groupKeys, schema, yields) ==
    Op("aggregate", [group_keys |-> groupKeys], <<input>>, Relation(schema),
       <<Region(FieldTypes(Schema(input)), yields)>>)

\* The operations without relation operands but a scan.
Values(rows, schema) == Op("values", [rows |-> rows], <<>>, Relation(schema), <<>>)
Empty(schema) == Op("empty", [rows |-> <<>>], <<>>, Relation(schema), <<>>)
Window(input, schema, yields) ==
    [Project(input, schema, yields) EXCEPT !.op = "window"]
Set(operator, all, inputs) ==
    Op("set", [operator |-> operator, all |-> all], inputs, inputs[1].result, <<>>)

\* A mutation carries the schema of its table; returning is a sequence of names.
Mutation(op, with, result, arguments, yields) ==
    Op(op, with, <<>>, result, <<Region(arguments, yields)>>)

\* The module: what its root block returns, and by which terminator.
Module(terminator, returned) == [terminator |-> terminator, returned |-> returned]
==============================================================================
