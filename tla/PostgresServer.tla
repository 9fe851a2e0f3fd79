---------------------------- MODULE PostgresServer ----------------------------
(***************************************************************************)
(* What PostgreSQL does with the statements of PostgresStatements: the types *)
(* it infers, the statements it refuses, the rows it answers and the changes *)
(* it makes.  External: modelled from SQL as the renderer, the executor and   *)
(* their tests rely on it.                                                   *)
(*                                                                         *)
(* A condition is TRUE, FALSE or Null.  Rows leave a SELECT in the order its  *)
(* own ORDER BY gives; one without comes out backwards when the server's      *)
(* choice says so, whatever order its source had.                            *)
(***************************************************************************)
EXTENDS PostgresStatements

CONSTANT Catalog   \* the entities whose tables the database has

Table(name) == CHOOSE entity \in Catalog : entity.table = name
TableColumns(entity) == ColumnNames(entity, Positions(entity))

-----------------------------------------------------------------------------
(* Types.  A scope is the columns and kinds of the sources of a row.         *)

IllTyped == <<"error">>
Side(columns, kinds) == [columns |-> columns, kinds |-> kinds]
\* A name two columns have is ambiguous.
ColumnKind(side, name) ==
    LET positions == {i \in DOMAIN side.columns : side.columns[i] = name}
    IN  IF Cardinality(positions) = 1 THEN side.kinds[CHOOSE i \in positions : TRUE] ELSE IllTyped

SourceColumns(source) ==
    CASE source.source = "table" -> TableColumns(Table(source.with.table))
      [] source.source = "derived" -> FieldNames(source.with.statement.select)
      [] source.source = "exists" -> <<source.with.column>>
      [] source.source = "values" -> source.with.columns
      [] source.source = "set" -> FieldNames(source.with.statements[1].select)
\* The statements a source is made of.
Statements(source) ==
    CASE source.source \in {"derived", "exists"} -> <<source.with.statement>>
      [] source.source = "set" -> source.with.statements
      [] OTHER -> <<>>
\* kinds: of the outputs of its statements
KindsMade(source, kinds) ==
    CASE source.source = "table" ->
            LET columns == Table(source.with.table).columns
            IN  [i \in DOMAIN columns |-> columns[i].kind]
      [] source.source = "derived" -> kinds[1]
      [] source.source = "exists" ->
            IF IllTyped \in ToSet(kinds[1]) THEN <<IllTyped>> ELSE <<<<"boolean">>>>
      [] source.source = "values" -> source.with.kinds
      [] source.source = "set" ->
            IF ToSet(kinds) = {kinds[1]} THEN kinds[1] ELSE <<IllTyped>>
RECURSIVE SelectKinds(_)
SourceKinds(source) ==
    KindsMade(source, Computed([i \in DOMAIN Statements(source) |->
                          Computed(SelectKinds(Statements(source)[i]))]))

FunctionKind(function, kind) ==
    CASE kind = IllTyped -> IllTyped
      [] function = "count" -> Int64
      [] function \in {"min", "max"} -> kind
      [] kind \in {<<"int16">>, <<"int32">>} -> IF function = "sum" THEN Int64 ELSE <<"decimal">>
      [] kind \in {Int64, <<"decimal">>} -> <<"decimal">>
      [] kind = <<"float32">> /\ function = "sum" -> kind
      [] kind \in {<<"float32">>, <<"float64">>} -> <<"float64">>
      [] OTHER -> IllTyped
Numeric == <<<<"int16">>, <<"int32">>, Int64, <<"decimal">>>>
AreNumeric(kinds) == \A i \in DOMAIN kinds : kinds[i] \in ToSet(Numeric)
\* The kind several values are brought to.
CommonKind(kinds) ==
    IF AreNumeric(kinds)
    THEN Numeric[CHOOSE n \in DOMAIN Numeric :
                    /\ Numeric[n] \in ToSet(kinds)
                    /\ \A m \in (n + 1)..Len(Numeric) : Numeric[m] \notin ToSet(kinds)]
    ELSE IF ToSet(kinds) = {kinds[1]} THEN kinds[1] ELSE IllTyped
OperatorKind(operator, left, right) ==
    CASE IllTyped \in {left, right} -> IllTyped
      [] operator \in {"And", "Or"} ->
            IF left = <<"boolean">> /\ right = left THEN left ELSE IllTyped
      [] operator = "InArray" -> IF right = ArrayOf(left) THEN <<"boolean">> ELSE IllTyped
      [] OTHER -> IF CommonKind(<<left, right>>) # IllTyped THEN <<"boolean">> ELSE IllTyped
\* A frame goes forward; peers are those of an order, and distances are along one key.
FrameAccepted(frame, keys) ==
    /\ frame.start # "UnboundedFollowing" /\ frame.end # "UnboundedPreceding"
    /\ frame.start = "CurrentRow" => frame.end # "Preceding"
    /\ frame.start = "Following" => frame.end \in {"Following", "UnboundedFollowing"}
    /\ frame.unit = "groups" => keys > 0
    /\ frame.unit = "range" /\ {"Preceding", "Following"} \intersect {frame.start, frame.end} # {}
       => keys = 1
RECURSIVE KindOf(_, _)
KindOf(sql, scope) ==
    CASE sql.sql = "column" -> ColumnKind(scope[sql.with.side], sql.with.name)
      [] sql.sql = "placeholder" -> sql.with.kind
      \* An integer is small until something says otherwise.
      [] sql.sql = "literal" -> IF sql.with.of = "integer" /\ ~sql.with.exact THEN <<"int32">>
                                ELSE sql.with.kind
      [] sql.sql = "cast" -> IF KindOf(sql.args[1], scope) = IllTyped THEN IllTyped ELSE sql.with.kind
      [] sql.sql = "unary" ->
            LET kind == KindOf(sql.args[1], scope)
            IN  IF kind = IllTyped \/ sql.with.operator = "Negate" THEN kind
                ELSE IF sql.with.operator = "Not" /\ kind # <<"boolean">> THEN IllTyped
                ELSE <<"boolean">>
      [] sql.sql = "binary" ->
            OperatorKind(sql.with.operator, KindOf(sql.args[1], scope), KindOf(sql.args[2], scope))
      [] sql.sql = "call" ->
            IF sql.with.star THEN Int64
            ELSE FunctionKind(sql.with.function, KindOf(sql.args[1], scope))
      [] sql.sql = "case" ->
            LET kinds == [i \in DOMAIN sql.args |-> KindOf(sql.args[i], scope)]
                arms == 1..sql.with.arms
            IN  IF \A arm \in arms : kinds[2 * arm - 1] = <<"boolean">>
                THEN CommonKind(Append([arm \in arms |-> kinds[2 * arm]], Last(kinds)))
                ELSE IllTyped
      [] sql.sql = "window_call" ->
            LET kinds == [i \in DOMAIN sql.args |-> KindOf(sql.args[i], scope)]
                frame == sql.with.frame
            IN  IF IllTyped \notin ToSet(kinds)
                   /\ (frame # None => FrameAccepted(frame[1], Len(sql.with.layout.order)))
                THEN FunctionKind(sql.with.function, kinds[1]) ELSE IllTyped
      [] sql.sql = "exists" ->
            LET beside(inner) == IF IllTyped \in ToSet(inner.kinds) THEN IllTyped
                                 ELSE KindOf(sql.args[1], <<scope[1], inner>>)
            IN  beside(Side(SourceColumns(sql.with.from), SourceKinds(sql.with.from)))

\* Outside aggregates, a grouped SELECT sees the row through its GROUP BY alone.
RECURSIVE OverGroups(_, _)
OverGroups(sql, keys) ==
    \/ sql \in ToSet(keys) \/ sql.sql = "call"
    \/ sql.sql # "column" /\ \A i \in DOMAIN sql.args : OverGroups(sql.args[i], keys)

\* A join has two sources.
Sources(from) == IF from.source = "join" THEN <<from.with.left, from.with.right>> ELSE <<from>>
SourceScope(from) ==
    LET side(source) == Side(Computed(SourceColumns(source)), Computed(SourceKinds(source)))
    IN  Computed([k \in DOMAIN Sources(from) |-> side(Sources(from)[k])])
SourceSides(from) ==
    Computed([k \in DOMAIN Sources(from) |-> Computed(SourceColumns(Sources(from)[k]))])
\* The kinds of a SELECT's output; of a SELECT the server refuses, one that is ill typed.
KindsUnder(s, scope) ==
    LET outputs == [i \in DOMAIN s.select |-> s.select[i].sql]
        ordered == [i \in DOMAIN s.order |-> s.order[i].sql]
        joined == IF s.from.source = "join" THEN <<s.from.with.condition>> ELSE <<>>
        conditions == s.where \o joined
        kinds(exprs) == [i \in DOMAIN exprs |-> KindOf(exprs[i], scope)]
        accepted ==
            /\ \A k \in DOMAIN scope : IllTyped \notin ToSet(scope[k].kinds)
            /\ ToSet(kinds(conditions)) \subseteq {<<"boolean">>}
            /\ IllTyped \notin ToSet(kinds(ordered))
            /\ s.distinct => ToSet(ordered) \subseteq ToSet(outputs)
            /\ \A keys \in ToSet(s.group) : \A i \in DOMAIN outputs : OverGroups(outputs[i], keys)
    IN  IF accepted THEN kinds(outputs) ELSE <<IllTyped>>
SelectKinds(s) == KindsUnder(s, SourceScope(s.from))

\* A change whose values are of its columns' kinds.
ChangeAccepted(entity, s) ==
    LET kinds == <<Side(TableColumns(entity), [i \in DOMAIN entity.columns |-> entity.columns[i].kind])>>
        columnKind(name) == ColumnKind(kinds[1], name)
    IN  CASE "insert" \in DOMAIN s ->
                \A r \in DOMAIN s.rows : \A i \in DOMAIN s.columns :
                    KindOf(s.rows[r][i], kinds) = columnKind(s.columns[i])
          [] "update" \in DOMAIN s ->
                /\ KindOf(s.where, kinds) = <<"boolean">>
                /\ \A i \in DOMAIN s.set : KindOf(s.set[i].sql, kinds) = columnKind(s.set[i].column)
          [] "delete" \in DOMAIN s -> KindOf(s.where, kinds) = <<"boolean">>

-----------------------------------------------------------------------------
(* Values.                                                                   *)

SqlNot(a) == IF a = Null THEN Null ELSE ~a
SqlAnd(a, b) == IF a = FALSE \/ b = FALSE THEN FALSE ELSE IF a = Null THEN a ELSE b
SqlOr(a, b) == SqlNot(SqlAnd(SqlNot(a), SqlNot(b)))
\* FALSE is less than TRUE.
Less(a, b) ==
    IF ToString(a) \in {"FALSE", "TRUE"} THEN ToString(a) = "FALSE" /\ ToString(b) = "TRUE" ELSE a < b
Operator(operator, a, b) ==
    CASE operator = "And" -> SqlAnd(a, b)
      [] operator = "Or" -> SqlOr(a, b)
      [] operator = "IsDistinctFrom" -> a # b
      [] a = Null \/ b = Null -> Null
      [] operator = "InArray" -> a \in ToSet(b)
      [] operator = "Equal" -> a = b
      [] operator = "NotEqual" -> a # b
      [] operator = "LessThan" -> Less(a, b)
      [] operator = "LessThanOrEqual" -> ~Less(b, a)
      [] operator = "GreaterThan" -> Less(b, a)
      [] operator = "GreaterThanOrEqual" -> ~Less(a, b)
\* An aggregate leaves NULLs out and is NULL of nothing.
AggregateOf(function, values) ==
    LET known == SelectSeq(values, LAMBDA value : value # Null)
        total == Folded(LAMBDA a, b : a + b, 0, known)
    IN  CASE known = <<>> /\ function # "count" -> Null
          [] function = "count" -> Len(known)
          [] function = "sum" -> total
          [] function = "avg" -> total \div Len(known)
          [] function = "min" -> CHOOSE a \in ToSet(known) : \A b \in ToSet(known) : a <= b
          [] function = "max" -> CHOOSE a \in ToSet(known) : \A b \in ToSet(known) : a >= b

\* Whether value a comes before value b under a key; by default NULL is the greatest.
KeyBefore(key, a, b) ==
    LET first == \/ key.null_order = "First"
                 \/ key.null_order = "DialectDefault" /\ key.direction = "Descending"
    IN  CASE a = Null -> first /\ b # Null
          [] b = Null -> ~first
          [] key.direction = "Ascending" -> Less(a, b)
          [] key.direction = "Descending" -> Less(b, a)
RowBefore(keys, a, b) ==
    \E k \in DOMAIN keys : KeyBefore(keys[k], a[k], b[k]) /\ \A j \in 1..(k - 1) : a[j] = b[j]

\* The value of the first condition that holds.
CaseOf(arms, value(_)) ==
    LET held == {arm \in 1..arms : value(2 * arm - 1) = TRUE}
    IN  IF held = {} THEN value(2 * arms + 1) ELSE value(2 * CHOOSE arm \in held : \A a \in held : arm <= a)
\* An aggregate over the rows of a row's partition that are in its frame; a bound of the
\* current row takes in its peers.  value: of each operand of the call, on a row.
Windowed(call, value(_, _), rows, current) ==
    LET layout == call.layout
        keys(row) == [i \in 1..layout.partition_keys |-> value(layout.arguments + i, row)]
        order(row) == [i \in DOMAIN layout.order |->
                          value(layout.arguments + layout.partition_keys + i, row)]
        frame == IF call.frame # None THEN call.frame[1]
                 ELSE [start |-> "UnboundedPreceding", end |-> "CurrentRow"]
        within(row) ==
            /\ keys(row) = keys(current)
            /\ frame.start = "CurrentRow" => ~RowBefore(layout.order, order(row), order(current))
            /\ frame.end = "CurrentRow" => ~RowBefore(layout.order, order(current), order(row))
        framed == SelectSeq(rows, within)
    IN  AggregateOf(call.function, [i \in DOMAIN framed |-> value(1, framed[i])])

\* sides: the column names of the sources; unit: a row, as one tuple for each source, and
\* the rows of its group; args: the values of $1, $2, ...
RECURSIVE Eval(_, _, _, _)
Eval(sql, sides, unit, args) ==
    LET arg(i) == Eval(sql.args[i], sides, unit, args)
    IN  CASE sql.sql = "column" ->
                LET columns == sides[sql.with.side]
                IN  unit.row[sql.with.side][CHOOSE i \in DOMAIN columns : columns[i] = sql.with.name]
          [] sql.sql = "placeholder" -> args[sql.with.n]
          [] sql.sql = "literal" -> sql.with.value
          [] sql.sql = "cast" -> arg(1)
          [] sql.sql = "unary" ->
                (CASE sql.with.operator = "Not" -> SqlNot(arg(1))
                   [] sql.with.operator = "IsNull" -> arg(1) = Null
                   [] sql.with.operator = "IsNotNull" -> arg(1) # Null)
          [] sql.sql = "binary" -> Operator(sql.with.operator, arg(1), arg(2))
          [] sql.sql = "call" ->
                IF sql.with.star THEN Len(unit.group)
                ELSE AggregateOf(sql.with.function,
                        [i \in DOMAIN unit.group |->
                            Eval(sql.args[1], sides, [row |-> unit.group[i], group |-> <<>>], args)])
          [] sql.sql = "case" -> CaseOf(sql.with.arms, arg)
          [] sql.sql = "window_call" ->
                LET at(i, row) == Eval(sql.args[i], sides, [row |-> row, group |-> <<>>], args)
                IN  Windowed(sql.with, at, unit.group, unit.row)

-----------------------------------------------------------------------------
(* Queries.                                                                  *)

Slice(rows, offset, fetch) ==
    LET left == IF offset = None THEN rows ELSE SubSeq(rows, offset[1] + 1, Len(rows))
    IN  IF fetch = None \/ fetch[1] >= Len(left) THEN left ELSE SubSeq(left, 1, fetch[1])
Deduplicated(rows) ==
    Folded(LAMBDA kept, row : IF row \in ToSet(kept) THEN kept ELSE Append(kept, row), <<>>, rows)
\* The rows of every group, in the order groups are first met.
Grouped(rows, keysOf) ==
    [k \in DOMAIN keysOf |-> SelectSeq(rows, LAMBDA row : row.keys = keysOf[k])]

\* The rows of two relations combined by a set operation, duplicates one by one or not.
SetRows(operator, all, a, b) ==
    LET left == IF all THEN a ELSE Deduplicated(a)
        copies(rows, row) == Cardinality({i \in DOMAIN rows : rows[i] = row})
        paired(i) == IF all THEN copies(SubSeq(left, 1, i), left[i]) <= copies(b, left[i])
                     ELSE copies(b, left[i]) > 0
        kept == SelectSeq([i \in DOMAIN left |-> i],
                          LAMBDA i : paired(i) = (operator = "Intersect"))
    IN  IF operator = "Union" THEN (IF all THEN a \o b ELSE Deduplicated(a \o b))
        ELSE [k \in DOMAIN kept |-> left[kept[k]]]
\* The pairs of a join; the row a side lacks is nothing.
JoinRows(kind, left, right, on(_, _)) ==
    LET matches(row) == SelectSeq(right, LAMBDA other : on(row, other))
        joined(row) ==
            LET matching == Computed(matches(row))
            IN  IF matching = <<>> /\ kind \in {"Left", "Full"} THEN <<<<Some(row), None>>>>
                ELSE [i \in DOMAIN matching |-> <<Some(row), Some(matching[i])>>]
        alone == IF kind \in {"Right", "Full"}
                 THEN SelectSeq(right, LAMBDA other : \A i \in DOMAIN left : ~on(left[i], other))
                 ELSE <<>>
    IN  FlattenSeq(Computed([i \in DOMAIN left |-> joined(left[i])]))
        \o [i \in DOMAIN alone |-> <<None, Some(alone[i])>>]
\* The row, or one of NULLs.
Extended(row, width) == IF row = None THEN [i \in 1..width |-> Null] ELSE row[1]

\* The rows of one source.  inputs: those of its statements
RowsMade(source, inputs, db) ==
    CASE source.source = "table" -> db[source.with.table]
      [] source.source = "derived" -> inputs[1]
      [] source.source = "exists" -> <<<<inputs[1] # <<>>>>>>
      [] source.source = "values" ->
            LET literals == source.with.rows
            IN  [r \in DOMAIN literals |-> [i \in DOMAIN literals[r] |-> literals[r][i].with.value]]
      [] source.source = "set" ->
            Folded(LAMBDA a, b : SetRows(source.with.operator, source.with.all, a, b),
                   Head(inputs), Tail(inputs))
RECURSIVE SelectRows(_, _, _, _)
RowsOf(source, db, args, backwards) ==
    RowsMade(source, Computed([i \in DOMAIN Statements(source) |->
                         Computed(SelectRows(Statements(source)[i], db, args, backwards))]), db)
\* A row and the rows of its group; a row by itself.
WithGroup(row, group) == [row |-> row, group |-> group]
Alone(row) == WithGroup(row, <<>>)
EvalEach(exprs, sides, unit, args) ==
    Computed([i \in DOMAIN exprs |-> Eval(exprs[i], sides, unit, args)])
\* Whether a condition holds of a pair of rows.
Matches(condition, sides, row, other, args) == Eval(condition, sides, Alone(<<row, other>>), args) = TRUE

\* The rows of a FROM, as one tuple for each side.  rows: those of its sources.
FromRows(from, sides, rows, args) ==
    LET padded(pair) == Computed([k \in {1, 2} |-> Extended(pair[k], Len(sides[k]))])
        tuples(pairs) == [i \in DOMAIN pairs |-> padded(pairs[i])]
    IN  IF from.source = "join"
        THEN tuples(JoinRows(from.with.kind, rows[1], rows[2], LAMBDA row, other :
                                 Matches(from.with.condition, sides, row, other, args)))
        ELSE [i \in DOMAIN rows[1] |-> <<rows[1][i]>>]
SourceRows(from, sides, db, args, backwards) ==
    LET rows == Computed([k \in DOMAIN sides |->
                    Computed(RowsOf(Sources(from)[k], db, args, backwards))])
    IN  Computed(FromRows(from, sides, rows, args))

\* The rows WHERE keeps; a correlated EXISTS has the row as its first side.
FilteredRows(where, rows, sides, db, args, backwards) ==
    LET condition == where[1]
        present(row, columns, others) ==
            \E i \in DOMAIN others :
                Matches(condition.args[1], <<sides[1], columns>>, row[1], others[i], args)
        correlated(columns, others) ==
            SelectSeq(rows, LAMBDA row : present(row, columns, others) # condition.with.negated)
    IN  CASE where = None -> rows
          [] condition.sql = "exists" ->
                correlated(SourceColumns(condition.with.from),
                           Computed(RowsOf(condition.with.from, db, args, backwards)))
          [] OTHER -> SelectSeq(rows, LAMBDA row : Eval(condition, sides, Alone(row), args) = TRUE)

\* What a SELECT has an output for: every row, seeing all of them, or every group.
Units(group, rows, sides, args) ==
    LET keyed == [i \in DOMAIN rows |->
                     [row |-> rows[i], keys |-> EvalEach(group[1], sides, Alone(rows[i]), args)]]
        ofGroup(g) == WithGroup(IF g = <<>> THEN g ELSE g[1].row, Computed([i \in DOMAIN g |-> g[i].row]))
        ofGroups(groups) == [k \in DOMAIN groups |-> ofGroup(groups[k])]
        grouped(all) ==
            Grouped(all, IF group[1] = <<>> THEN <<<<>>>>
                         ELSE Deduplicated([i \in DOMAIN all |-> all[i].keys]))
    IN  Computed(IF group = None THEN [i \in DOMAIN rows |-> WithGroup(rows[i], rows)]
                 ELSE ofGroups(Computed(grouped(Computed(keyed)))))
Arranged(order, units, sides, args, backwards) ==
    LET key(unit) == EvalEach([i \in DOMAIN order |-> order[i].sql], sides, unit, args)
    IN  IF order # <<>> THEN SortSeq(units, LAMBDA a, b : RowBefore(order, key(a), key(b)))
        ELSE IF backwards THEN Reverse(units) ELSE units
Outputs(s, units, sides, args) ==
    LET outputs == Computed([i \in DOMAIN units |->
                       EvalEach([k \in DOMAIN s.select |-> s.select[k].sql], sides, units[i], args)])
    IN  IF s.distinct THEN Deduplicated(outputs) ELSE outputs
RowsFrom(s, sides, db, args, backwards) ==
    LET rows == FilteredRows(s.where, SourceRows(s.from, sides, db, args, backwards),
                             sides, db, args, backwards)
        units == Units(s.group, Computed(rows), sides, args)
    IN  Slice(Outputs(s, Arranged(s.order, units, sides, args, backwards), sides, args),
              EvalEach(s.offset, sides, Alone(<<>>), args), EvalEach(s.fetch, sides, Alone(<<>>), args))
SelectRows(s, db, args, backwards) == RowsFrom(s, SourceSides(s.from), db, args, backwards)

-----------------------------------------------------------------------------
(* Changes.  A statement that fails changes nothing.                         *)

Outcome(rows, returned, error) == [rows |-> rows, returned |-> returned, error |-> error]
KeyOf(entity, row) == [i \in DOMAIN PrimaryKey(entity) |-> row[PrimaryKey(entity)[i]]]
ColumnIndex(entity, name) == CHOOSE i \in DOMAIN entity.columns : <<entity.columns[i].name>> = name
\* A generated key is one no row has.
FreshKey(rows) == 1 + Folded(LAMBDA a, row : IF row[1] > a THEN row[1] ELSE a, 0, rows)

InsertRow(entity, s, values, done) ==
    LET given(i) == \E k \in DOMAIN s.columns : ColumnIndex(entity, s.columns[k]) = i
        row == [i \in DOMAIN entity.columns |->
                   IF given(i) THEN values[CHOOSE k \in DOMAIN s.columns :
                                               ColumnIndex(entity, s.columns[k]) = i]
                   ELSE FreshKey(done.rows)]
        clashing == {r \in DOMAIN done.rows :
                        /\ PrimaryKey(entity) # <<>>
                        /\ KeyOf(entity, done.rows[r]) = KeyOf(entity, row)}
        clash == CHOOSE r \in clashing : TRUE
        assigned == {ColumnIndex(entity, name) : name \in ToSet(s.conflict[1].assignments)}
        updated == [i \in DOMAIN row |-> IF i \in assigned THEN row[i] ELSE done.rows[clash][i]]
    IN  CASE done.error # ok -> done
          [] clashing = {} -> Outcome(Append(done.rows, row), Append(done.returned, row), ok)
          [] s.conflict = None -> [done EXCEPT !.error = "unique_violation"]
          [] s.conflict[1].action = "nothing" -> done
          \* One command updates a row once.
          [] done.rows[clash] \in ToSet(done.returned) ->
                [done EXCEPT !.error = "cardinality_violation"]
          [] OTHER -> Outcome([done.rows EXCEPT ![clash] = updated],
                              Append(done.returned, updated), ok)
Insertion(entity, s, db, args) ==
    LET unit == [row |-> <<>>, group |-> <<>>]
        values(row) == [i \in DOMAIN row |-> Eval(row[i], <<>>, unit, args)]
        \* No target at all is good for any table.
        arbiter == \A i \in DOMAIN s.conflict : \A j \in DOMAIN s.conflict[i].target :
                      ToSet(s.conflict[i].target[j])
                      = ToSet(ColumnNames(entity, PrimaryKey(entity)))
    IN  Folded(LAMBDA done, row : InsertRow(entity, s, values(row), done),
                 Outcome(db[entity.table], <<>>, IF arbiter THEN ok ELSE "no_unique_index"), s.rows)
Change(entity, s, db, args) ==
    LET rows == db[entity.table]
        sides == <<TableColumns(entity)>>
        unit(row) == [row |-> <<row>>, group |-> <<>>]
        chosen(row) == Eval(s.where, sides, unit(row), args) = TRUE
        changed(row) ==
            [i \in DOMAIN row |->
                LET set == {k \in DOMAIN s.set : ColumnIndex(entity, s.set[k].column) = i}
                IN  IF set = {} THEN row[i]
                    ELSE Eval(s.set[CHOOSE k \in set : TRUE].sql, sides, unit(row), args)]
        touched == SelectSeq(rows, chosen)
    IN  IF "delete" \in DOMAIN s
        THEN Outcome(SelectSeq(rows, LAMBDA row : ~chosen(row)), touched, ok)
        ELSE Outcome([r \in DOMAIN rows |-> IF chosen(rows[r]) THEN changed(rows[r]) ELSE rows[r]],
                     [r \in DOMAIN touched |-> changed(touched[r])], ok)

\* The statement's answer and the database after it.
Answer(db, rows, error) == [db |-> db, rows |-> rows, error |-> error]
Execute(s, db, args, backwards) ==
    LET entity == Table(CASE "insert" \in DOMAIN s -> s.insert
                          [] "update" \in DOMAIN s -> s.update
                          [] "delete" \in DOMAIN s -> s.delete)
        after(outcome) ==
            IF outcome.error # ok THEN Answer(db, <<>>, outcome.error)
            ELSE Answer([db EXCEPT ![entity.table] = outcome.rows], outcome.returned, ok)
    IN  CASE "select" \in DOMAIN s ->
                IF IllTyped \in ToSet(SelectKinds(s)) THEN Answer(db, <<>>, "ill_typed")
                ELSE Answer(db, SelectRows(s, db, args, backwards), ok)
          [] ~ChangeAccepted(entity, s) -> Answer(db, <<>>, "ill_typed")
          [] OTHER -> after(IF "insert" \in DOMAIN s THEN Insertion(entity, s, db, args)
                            ELSE Change(entity, s, db, args))
==============================================================================
