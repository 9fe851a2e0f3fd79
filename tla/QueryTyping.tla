----------------------------- MODULE QueryTyping -----------------------------
(***************************************************************************)
(* The typing rules of AfterBurner's verifier                               *)
(* (crates/afterburner/src/ir/validation/verifier.rs): what must hold of     *)
(* the types, regions and operands of the operations of a module before a    *)
(* dialect renders it.  The verifier's other half, the agreement of arenas   *)
(* and use lists, is in IrModule.                                            *)
(*                                                                         *)
(* A value is the tree that computes it, so equal trees stand for one value, *)
(* and a value of an enclosing region cannot be captured.                    *)
(***************************************************************************)
EXTENDS QueryLowering

-----------------------------------------------------------------------------
(* Types.                                                                    *)

\* "malformed" stands for a width or a precision that no type has.
RECURSIVE KindHolds(_)
KindHolds(kind) ==
    CASE kind[1] = "array" -> KindHolds(Tail(kind))
      [] kind[1] = "custom" -> kind[2] # ""
      [] OTHER -> kind[1] # "malformed"
TypeHolds(ty) == IsScalar(ty) => KindHolds(ty.kind)
SchemaHolds(schema) ==
    /\ IsInjective(FieldNames(schema))
    /\ \A i \in DOMAIN schema : schema[i].name # <<"">> /\ TypeHolds(schema[i].ty)

\* The variant of a literal against the type it is given.
LiteralMatches(of, ty) ==
    CASE of = "null" -> ty.nullable
      [] of = "integer" -> IsInteger(ty) \/ ty.kind[1] = "decimal"
      [] of = "unsigned" -> ty.kind[1] \in {"uint32", "uint64", "decimal"}
      [] of = "float" -> ty.kind[1] \in {"float16", "float32", "float64"}
      [] of = "string" -> ty.kind = <<"utf8">>
      [] of \in {"late_time", "fine_time"} -> ty.kind[1] \in {"time", "timestamp"}
      [] OTHER -> ty.kind[1] = of

-----------------------------------------------------------------------------
(* Scalars.  block: the types of the enclosing block's arguments; owner: the *)
(* operation whose region that block is in.                                  *)

ResultTypes(values) == [i \in DOMAIN values |-> values[i].result]
AreScalar(values) == \A i \in DOMAIN values : IsScalar(values[i].result)
EqualityOps == {"Equal", "NotEqual", "IsDistinctFrom", "InArray"}
PredicateOps == EqualityOps \union
    {"LessThan", "LessThanOrEqual", "GreaterThan", "GreaterThanOrEqual", "And", "Or", "Like",
     "CaseInsensitiveLike"}

\* What a value is computed from: its row, aggregates, windows; never through a group key.
RECURSIVE Dependencies(_, _)
Dependencies(value, groupKeys) ==
    CASE value \in groupKeys -> {}
      [] value.op = "argument" -> {"row"}
      [] value.op = "aggregate_call" -> {"aggregate"}
      [] value.op = "window_call" -> {"window"}
      [] OTHER -> UNION {Dependencies(value.operands[i], groupKeys) : i \in DOMAIN value.operands}
HoldsNoCalls(values) ==
    \A i \in DOMAIN values : Dependencies(values[i], {}) \intersect {"aggregate", "window"} = {}

UnaryHolds(operator, operand, result) ==
    CASE operator = "Not" -> IsBoolean(operand) /\ IsBoolean(result)
      [] operator \in {"IsNull", "IsNotNull"} -> result = Boolean(FALSE)
      [] operator = "Negate" -> operand = result
BinaryHolds(operator, left, right, result) ==
    /\ IsScalar(left) /\ IsScalar(right)
    /\ IF operator = "InArray" THEN right.kind = ArrayOf(left.kind) ELSE left = right
    /\ IF operator \in PredicateOps THEN IsBoolean(result) ELSE left = result
    /\ operator \in {"And", "Or"} => IsBoolean(left)
    /\ operator = "IsDistinctFrom" => ~result.nullable
\* Conditions and values alternate, and a value for no condition comes last.
CaseHolds(arms, operands, result) ==
    /\ Len(operands) = 2 * arms + 1
    /\ \A arm \in 1..arms : /\ IsBoolean(operands[2 * arm - 1].result)
                            /\ operands[2 * arm].result = result
    /\ operands[2 * arms + 1].result = result

BoundRank(bound) ==
    CASE bound = "UnboundedPreceding" -> 0
      [] bound = "Preceding" -> 1
      [] bound = "CurrentRow" -> 2
      [] bound = "Following" -> 3
      [] bound = "UnboundedFollowing" -> 4
\* frame: a unit and the two bounds, an absent end being the current row
OffsetCount(frame) == Len(SelectSeq(<<frame.start, frame.end>>,
                                    LAMBDA bound : bound \in {"Preceding", "Following"}))
FrameHolds(frame, orderKeys) ==
    /\ frame.start # "UnboundedFollowing"
    /\ frame.end # "UnboundedPreceding"
    /\ BoundRank(frame.start) <= BoundRank(frame.end)
    /\ frame.unit = "range" /\ OffsetCount(frame) # 0 => orderKeys = 1
    /\ frame.unit = "groups" => orderKeys # 0
\* Operands: arguments, partition keys, order keys, then the offsets of the frame.
WindowHolds(layout, frame, operands) ==
    LET before == layout.arguments + layout.partition_keys + Len(layout.order)
        offsets == SubSeq(operands, before + 1, Len(operands))
    IN  /\ Len(operands) = before + (IF frame = None THEN 0 ELSE OffsetCount(frame[1]))
        /\ frame # None =>
              /\ FrameHolds(frame[1], Len(layout.order))
              /\ \A i \in DOMAIN offsets :
                    /\ Dependencies(offsets[i], {}) = {}
                    /\ frame[1].unit # "range" => IsInteger(offsets[i].result)

ScalarRule(value, block, owner) ==
    LET operands == value.operands
        types == ResultTypes(operands)
    IN  CASE value.op = "argument" ->
                value.with.index \in DOMAIN block /\ block[value.with.index] = value.result
          [] value.op = "literal" -> operands = <<>> /\ LiteralMatches(value.with.of, value.result)
          [] value.op = "parameter" -> operands = <<>>
          [] value.op = "unary" ->
                Len(operands) = 1 /\ UnaryHolds(value.with.operator, types[1], value.result)
          [] value.op = "binary" ->
                /\ Len(operands) = 2
                /\ BinaryHolds(value.with.operator, types[1], types[2], value.result)
          [] value.op = "cast" -> Len(operands) = 1 /\ value.result = value.with.to
          [] value.op = "case" -> CaseHolds(value.with.arms, operands, value.result)
          [] value.op = "call" -> AreScalar(operands)
          [] value.op = "aggregate_call" ->
                /\ owner = "aggregate"
                /\ AreScalar(operands) /\ HoldsNoCalls(operands)
                /\ value.with.star => operands = <<>> /\ ~value.with.distinct
          [] value.op = "window_call" ->
                /\ owner = "window"
                /\ AreScalar(operands) /\ HoldsNoCalls(operands)
                /\ WindowHolds(value.with.layout, value.with.frame, operands)
          [] OTHER -> FALSE
RECURSIVE ScalarHolds(_, _, _)
ScalarHolds(value, block, owner) ==
    /\ IsScalar(value.result) /\ TypeHolds(value.result)
    /\ ScalarRule(value, block, owner)
    /\ \A i \in DOMAIN value.operands : ScalarHolds(value.operands[i], block, owner)

-----------------------------------------------------------------------------
(* Relations.                                                                *)

\* How many operands and regions an operation has.
HasShape(node, operands, regions) ==
    Len(node.operands) = operands /\ Len(node.regions) = regions
Input(node) == Schema(node.operands[1])
SameRelation(node) == node.result = node.operands[1].result
\* The row lambda: its arguments are the fields of the input row.
TakesRow(node, types) == node.regions[1].arguments = types
YieldsBoolean(node) == Len(Yields(node)) = 1 /\ IsBoolean(Yields(node)[1].result)
YieldsSchema(node) == ResultTypes(Yields(node)) = FieldTypes(Schema(node))

JoinedTypes(kind, left, right) ==
    CASE kind \in {"Inner", "Cross"} -> left \o right
      [] kind = "Left" -> left \o Nullable(right)
      [] kind = "Right" -> Nullable(left) \o right
      [] kind = "Full" -> Nullable(left) \o Nullable(right)
      [] kind \in {"Semi", "Anti"} -> left
JoinHolds(node) ==
    LET left == FieldTypes(Schema(node.operands[1]))
        right == FieldTypes(Schema(node.operands[2]))
    IN  /\ HasShape(node, 2, IF node.with.has_condition THEN 1 ELSE 0)
        /\ node.with.kind = "Cross" => ~node.with.has_condition
        /\ node.with.has_condition => TakesRow(node, left \o right) /\ YieldsBoolean(node)
        /\ FieldTypes(Schema(node)) = JoinedTypes(node.with.kind, left, right)

\* The group keys come first; an output sees the row only through them or in an aggregate.
AggregateHolds(node) ==
    LET keys == node.with.group_keys
        width == Len(Schema(node))
        groups == SubSeq(Yields(node), 1, keys)
        outputs == SubSeq(Yields(node), keys + 1, keys + width)
    IN  /\ HasShape(node, 1, 1)
        /\ TakesRow(node, FieldTypes(Input(node)))
        /\ Len(Yields(node)) = keys + width
        /\ ResultTypes(outputs) = FieldTypes(Schema(node))
        /\ AreScalar(groups) /\ HoldsNoCalls(groups)
        /\ \A i \in DOMAIN outputs :
              Dependencies(outputs[i], ToSet(groups)) \subseteq {"aggregate"}

LimitHolds(node) ==
    LET counts == Len(SelectSeq(<<node.with.has_offset, node.with.has_fetch>>,
                                LAMBDA given : given))
    IN  /\ HasShape(node, 1 + counts, 0) /\ SameRelation(node)
        /\ counts > 0
        /\ \A i \in 2..(1 + counts) : IsInteger(node.operands[i].result)
                                      /\ ~node.operands[i].result.nullable
SortHolds(node) ==
    /\ HasShape(node, 1, IF node.with.keys = <<>> THEN 0 ELSE 1) /\ SameRelation(node)
    /\ node.with.keys # <<>> => /\ TakesRow(node, FieldTypes(Input(node)))
                                /\ Len(Yields(node)) = Len(node.with.keys)
ExistsHolds(node) ==
    HasShape(node, 1, 0) /\ FieldTypes(Schema(node)) = <<Boolean(FALSE)>>
SetHolds(node) ==
    /\ Len(node.operands) >= 2 /\ node.regions = <<>>
    /\ \A i \in DOMAIN node.operands : node.operands[i].result = node.result

\* Only the widths of a scan and of literal rows are compared with the schema.
LogicalRule(node) ==
    CASE node.op = "scan" -> HasShape(node, 0, 0) /\ Len(node.with.columns) = Len(Schema(node))
      [] node.op = "values" ->
            /\ HasShape(node, 0, 0)
            /\ \A r \in DOMAIN node.with.rows : Len(node.with.rows[r]) = Len(Schema(node))
      [] node.op = "empty" -> HasShape(node, 0, 0)
      [] node.op = "filter" ->
            /\ HasShape(node, 1, 1) /\ SameRelation(node)
            /\ TakesRow(node, FieldTypes(Input(node))) /\ YieldsBoolean(node)
      [] node.op \in {"project", "window"} ->
            HasShape(node, 1, 1) /\ TakesRow(node, FieldTypes(Input(node))) /\ YieldsSchema(node)
      [] node.op = "join" -> JoinHolds(node)
      [] node.op = "aggregate" -> AggregateHolds(node)
      [] node.op = "sort" -> SortHolds(node)
      [] node.op = "limit" -> LimitHolds(node)
      [] node.op = "distinct" -> HasShape(node, 1, 0) /\ SameRelation(node)
      [] node.op = "exists" -> ExistsHolds(node)
      [] node.op = "set" -> SetHolds(node)

\* Every value of a region, in its block.
RegionsHold(node) ==
    \A r \in DOMAIN node.regions : \A i \in DOMAIN node.regions[r].yields :
        ScalarHolds(node.regions[r].yields[i], node.regions[r].arguments, node.op)
RECURSIVE RelationHolds(_)
RelationHolds(node) ==
    /\ IsRelation(node.result) /\ SchemaHolds(Schema(node))
    /\ LogicalRule(node) /\ RegionsHold(node)
    /\ \A i \in DOMAIN node.operands :
          IF node.operands[i].op \in LogicalOps THEN RelationHolds(node.operands[i])
          ELSE ScalarHolds(node.operands[i], <<>>, "none")

-----------------------------------------------------------------------------
(* Mutations.                                                                *)

ColumnType(schema, name) ==
    schema[CHOOSE i \in DOMAIN schema : schema[i].name = name].ty
\* A list of distinct columns of the table.
NamesColumns(schema, names) ==
    names # <<>> /\ IsInjective(names) /\ ToSet(names) \subseteq ToSet(FieldNames(schema))
NamedTypes(schema, names) == [i \in DOMAIN names |-> ColumnType(schema, names[i])]

ReturningHolds(node) ==
    LET schema == node.with.schema
        returning == node.with.returning
    IN  IF returning = <<>> THEN node.result = Unit
        ELSE /\ NamesColumns(schema, returning)
             /\ IsRelation(node.result)
             /\ FieldNames(Schema(node)) = returning
             /\ FieldTypes(Schema(node)) = NamedTypes(schema, returning)
\* A column takes the value the row would have been inserted with; only an update must say
\* of which index.
ConflictHolds(schema, columns, conflict) ==
    /\ \A i \in DOMAIN conflict.target : NamesColumns(schema, conflict.target[i])
    /\ conflict.action = "update" =>
          /\ conflict.target # None
          /\ NamesColumns(schema, conflict.assignments)
          /\ ToSet(conflict.assignments) \subseteq ToSet(columns)
InsertHolds(node) ==
    LET columns == node.with.columns
        types == NamedTypes(node.with.schema, columns)
    IN  /\ node.with.rows > 0
        /\ NamesColumns(node.with.schema, columns)
        /\ TakesRow(node, <<>>)
        /\ ResultTypes(Yields(node)) = FlattenSeq([r \in 1..node.with.rows |-> types])
        /\ \A i \in DOMAIN node.with.conflict :
              ConflictHolds(node.with.schema, columns, node.with.conflict[i])
\* A predicate over the row of the table, then a value for each assignment.
ChangeHolds(node, assignments) ==
    /\ TakesRow(node, FieldTypes(node.with.schema))
    /\ Yields(node) # <<>> /\ IsBoolean(Yields(node)[1].result)
    /\ Tail(ResultTypes(Yields(node))) = NamedTypes(node.with.schema, assignments)
MutationHolds(node) ==
    /\ HasShape(node, 0, 1)
    /\ node.with.table # ""
    /\ SchemaHolds(node.with.schema) /\ ReturningHolds(node) /\ RegionsHold(node)
    /\ CASE node.op = "insert" -> InsertHolds(node)
         [] node.op = "update" -> /\ NamesColumns(node.with.schema, node.with.assignments)
                                  /\ ChangeHolds(node, node.with.assignments)
         [] node.op = "delete" -> ChangeHolds(node, <<>>)

-----------------------------------------------------------------------------
VerifyModule(module) ==
    LET node == module.returned
    IN  /\ IF module.terminator = "query_return" THEN IsRelation(node.result)
           ELSE node.result = Unit
        /\ IF node.op \in MutationOps THEN MutationHolds(node) ELSE RelationHolds(node)
==============================================================================
