------------------------------ MODULE IrRendering ------------------------------
(***************************************************************************)
(* Relations of AfterBurner IR as any frontend may build them: one operation *)
(* is put on top of another, the module is verified and, when it holds,       *)
(* rendered (crates/afterburner/src/ir/validation/verifier.rs and             *)
(* crates/jetorm-dialect/src/postgres).  Only a relation that has a statement *)
(* grows on; every action also proposes operations the verifier is to refuse. *)
(***************************************************************************)
EXTENDS IrMeaning

CONSTANTS
    Bases,       \* relations to begin with
    Other,       \* the relation others are joined with
    Databases,
    MaxSteps,    \* bound: operations on top of a base
    MaxWork      \* bound: operations, those that have a SELECT of their own counted twice

VARIABLES
    ir,          \* the relation the module returns
    statement,   \* its statement, or why it has none
    steps, scopes   \* operations on top of the base, and those with a SELECT of their own
vars == <<ir, statement, steps, scopes>>

RenderIr(relation) == RenderStatement(Module("query_return", relation))

Init ==
    /\ ir \in Bases
    /\ statement = RenderIr(ir)
    /\ steps = 0 /\ scopes = 0

Grow(relation) ==
    /\ statement.error = ok /\ steps < MaxSteps
    /\ ir' = relation
    /\ statement' = RenderIr(relation)
    /\ steps' = steps + 1
Within(relation) == steps + scopes < MaxWork /\ Grow(relation) /\ UNCHANGED scopes
Around(relation) == steps + scopes < MaxWork - 1 /\ Grow(relation) /\ scopes' = scopes + 1

-----------------------------------------------------------------------------
(* Values of a row of the relation.                                          *)

Width == Len(Schema(ir))
ValueAt(index) == Argument(index, Schema(ir)[index].ty)
FirstValue == ValueAt(1)
LastValue == ValueAt(Width)
AllValues == [i \in 1..Width |-> ValueAt(i)]
Typed(value) == Lowered(value, value.result, <<>>)
Test(operator, value) == Unary(operator, value, Boolean(FALSE))
Number(value, nullable) == Literal("integer", value, Scalar(Int64, nullable))
CountAll == AggregateCall("count", FALSE, TRUE, <<>>, Scalar(Int64, FALSE))
SumType == Scalar(SumKind(FirstValue.result.kind), TRUE)
SortKey(direction, nulls) == [direction |-> direction, null_order |-> nulls]

-----------------------------------------------------------------------------
(* Operations.                                                               *)

\* A column that is no condition is to be refused.
FilterRows ==
    \/ Within(Filter(ir, Test("IsNotNull", LastValue)))
    \/ /\ FirstValue.result.kind = Int64
       /\ Within(Filter(ir, CombineBinary("GreaterThan", Typed(FirstValue),
                                          Typed(Number(1, FALSE))).value))
    \/ Within(Filter(ir, LastValue))

\* A value may not be called less nullable than it is, nor be a window's.
ProjectRows ==
    LET nullable == WithNullability(FirstValue.result, TRUE)
        choice == Case(1, <<Test("IsNull", LastValue), Literal("null", Null, nullable),
                            Cast(FirstValue, nullable)>>, nullable)
        sure == Field(<<"x">>, WithNullability(LastValue.result, FALSE))
        window == WindowCall("sum", [arguments |-> 1, partition_keys |-> 0, order |-> <<>>], None,
                             <<FirstValue>>, SumType)
    IN  \/ Within(Project(ir, Reverse(Schema(ir)), Reverse(AllValues)))
        \/ Within(Project(ir, <<Field(<<"x">>, nullable), Field(<<"y">>, Boolean(FALSE))>>,
                          <<choice, Test("IsNull", FirstValue)>>))
        \/ Within(Project(ir, <<sure>>, <<LastValue>>))
        \/ IsInteger(FirstValue.result)
           /\ Within(Project(ir, <<Field(<<"x">>, SumType)>>, <<window>>))

DistinctRows == Within(Distinct(ir))

\* PostgreSQL refuses to sort by an expression what it selects distinct.
SortRows ==
    \/ Within(Sort(ir, <<SortKey("Ascending", "First")>>, <<FirstValue>>))
    \/ Within(Sort(ir, <<SortKey("Descending", "DialectDefault")>>, <<LastValue>>))
    \/ /\ ~SelectsDistinct(ir)
       /\ Within(Sort(ir, <<SortKey("Descending", "Last")>>, <<Test("IsNull", LastValue)>>))

\* Rows of a total order; a count that may be NULL is to be refused.
FirstRows ==
    LET keys == [i \in 1..Width |-> SortKey(IF i = 1 THEN "Descending" ELSE "Ascending", "Last")]
        sorted == Sort(ir, keys, AllValues)
    IN  \/ \E nullable \in BOOLEAN :
              Within(Limit(sorted, FALSE, TRUE, <<Number(2, nullable)>>))
        \/ Within(Limit(sorted, TRUE, TRUE, <<Number(1, FALSE), Number(1, FALSE)>>))

SomeRow == Around(Exists(ir, <<Field(<<"exists">>, Boolean(FALSE))>>))

\* The schema of an outer join is to be widened, and a cross join has no condition.
JoinRelation ==
    LET left == Schema(ir)
        right == Schema(Other)
        names == [i \in 1..(Len(left) + Len(right)) |->
                     IF i <= Len(left) THEN <<"l">> \o left[i].name
                     ELSE <<"r">> \o right[i - Len(left)].name]
        named(types) == [i \in DOMAIN types |-> Field(names[i], types[i])]
        schema(kind) == named(JoinedTypes(kind, FieldTypes(left), FieldTypes(right)))
        equal == CombineBinary("Equal", Typed(FirstValue),
                               Typed(Argument(Len(left) + 1, right[1].ty))).value
    IN  /\ FirstValue.result.kind = right[1].ty.kind
        /\ \/ \E kind \in {"Inner", "Left", "Right", "Full", "Semi", "Anti", "Cross"} :
                 Around(Join(kind, ir, Other, schema(kind), <<equal>>))
           \/ \E kind \in {"Cross", "Full"} : Around(Join(kind, ir, Other, schema(kind), <<>>))
           \/ \E kind \in {"Left", "Right"} :
                 Around(Join(kind, ir, Other, schema("Inner"), <<equal>>))

\* With part of itself, taken twice from the difference; operands are of one type.
CombineRelations ==
    LET part == Filter(ir, Test("IsNotNull", LastValue))
    IN  \/ \E operator \in {"Union", "Intersect", "Except"}, all \in BOOLEAN :
              Around(Set(operator, all, <<ir, part>>))
        \/ Around(Set("Except", TRUE, <<ir, part, part>>))
        \/ Around(Set("Union", FALSE, <<ir, Other>>))

\* An output is a key or made of aggregates.
GroupRelation ==
    LET count == Field(<<"n">>, Scalar(Int64, FALSE))
        key == Field(<<"k">>, LastValue.result)
        sum == AggregateCall("sum", FALSE, FALSE, <<FirstValue>>, SumType)
    IN  \/ Around(Aggregate(ir, 1, <<key, count>>, <<LastValue, LastValue, CountAll>>))
        \/ /\ IsInteger(FirstValue.result)
           /\ Around(Aggregate(ir, 0, <<count, Field(<<"s">>, SumType)>>, <<CountAll, sum>>))
        \/ Around(Aggregate(ir, 1, <<key, Field(<<"f">>, FirstValue.result)>>,
                            <<LastValue, LastValue, FirstValue>>))

Frame(unit, start, end) == Some([unit |-> unit, start |-> start, end |-> end])
Frames == {None, Frame("rows", "UnboundedPreceding", "UnboundedFollowing"),
           Frame("groups", "CurrentRow", "UnboundedFollowing"),
           Frame("rows", "UnboundedFollowing", "UnboundedFollowing")}
OverWindow ==
    /\ IsInteger(FirstValue.result)
    /\ \E partitioned, ordered \in BOOLEAN, frame \in Frames :
          LET layout == [arguments |-> 1, partition_keys |-> IF partitioned THEN 1 ELSE 0,
                         order |-> IF ordered THEN <<SortKey("Descending", "First")>> ELSE <<>>]
              operands == <<FirstValue>> \o (IF partitioned THEN <<LastValue>> ELSE <<>>)
                          \o (IF ordered THEN <<FirstValue>> ELSE <<>>)
              call == WindowCall("sum", layout, frame, operands, SumType)
          IN  Around(Window(ir, <<Field(<<"w">>, SumType), Field(<<"l">>, LastValue.result)>>,
                            <<call, LastValue>>))

Next == \/ FilterRows \/ ProjectRows \/ DistinctRows \/ SortRows \/ FirstRows
        \/ SomeRow \/ JoinRelation \/ CombineRelations \/ GroupRelation \/ OverWindow
Spec == Init /\ [][Next]_vars

-----------------------------------------------------------------------------
(* Properties.                                                               *)

Verified == statement.error # "InvalidModule"

\* What the server answers is what a relation of that schema and meaning promises.
Faithful(reply, schema, ties) ==
    /\ reply.error = ok
    /\ \A row \in ToSet(reply.rows) : \A i \in DOMAIN row : row[i] = Null => schema[i].ty.nullable
    /\ IsArrangement(reply.rows, ties)
\* A module that is verified and rendered means on the server what it means as IR: the
\* statement is accepted, its columns are of the kinds the schema says and NULL only where it
\* allows that, and its rows are those of the IR in an order the IR allows, whatever order the
\* server likes (error.rs: a shape that cannot be rendered faithfully is refused).
RendersWhatItMeans ==
    statement.error = ok =>
        /\ SelectKinds(statement.sql) = [i \in DOMAIN Schema(ir) |-> Schema(ir)[i].ty.kind]
        /\ \A db \in Databases, backwards \in BOOLEAN :
              Faithful(Execute(statement.sql, db, <<>>, backwards), Schema(ir), Meaning(ir, db))

\* Rows in an order nothing has limited.
RECURSIVE Ordered(_)
Ordered(node) ==
    \/ node.op = "sort"
    \/ node.op = "project" /\ KeepsOrder(node) /\ Ordered(node.operands[1])
RECURSIVE OrderIsLost(_)
OrderIsLost(node) ==
    \E i \in DOMAIN node.operands :
        LET input == node.operands[i]
        IN  \/ /\ node.op \notin {"limit", "exists"} /\ Ordered(input)
               /\ ~(node.op = "project" /\ KeepsOrder(node))
            \/ OrderIsLost(input)

\* What the verifier accepts is rendered, unless an order that nothing has limited would get
\* lost in a derived table (wrap in select.rs).
RefusesOnlyLostOrders ==
    Verified => statement.error = IF OrderIsLost(ir) THEN Unsupported ELSE ok

\* "A verified module contradicted the renderer's expectations; this indicates a bug in the
\* renderer or the verifier" (error.rs): no verified module does.
NeverContradicted == statement.error # Inconsistent
==============================================================================
