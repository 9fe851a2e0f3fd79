----------------------------- MODULE QueryMeaning -----------------------------
(***************************************************************************)
(* What a caller means by the calls it makes of a builder, said without     *)
(* binds, shapes, IR or SQL: conditions hold of rows of entities, with their *)
(* values in place; a related entity is the one whose key the source holds;  *)
(* an order allows every arrangement it does not tell apart.  The reference  *)
(* the execution of a query is compared with.                                *)
(***************************************************************************)
EXTENDS QueryExecution

Calls(program, name) == SelectSeq(program.calls, LAMBDA call : call.call = name)
Made(program, name) == Calls(program, name) # <<>>

-----------------------------------------------------------------------------
(* Conditions.                                                               *)

RECURSIVE Truth(_, _)
Truth(expr, row) ==
    CASE expr.node = "column" -> row[expr.index]
      [] expr.node = "value" -> expr.value
      [] expr.node = "unary" ->
            (CASE expr.op = "Not" -> SqlNot(Truth(expr.operand, row))
               [] expr.op = "IsNull" -> Truth(expr.operand, row) = Null
               [] expr.op = "IsNotNull" -> Truth(expr.operand, row) # Null)
      [] expr.node = "binary" -> Operator(expr.op, Truth(expr.left, row), Truth(expr.right, row))
Satisfies(row, calls) == \A i \in DOMAIN calls : Truth(calls[i].expr, row) = TRUE

-----------------------------------------------------------------------------
(* Reads.                                                                    *)

\* The rows of a relation's target that go with a source row; one of NULLs if there is none.
Related(relation, row, db) ==
    LET found == SelectSeq(db[relation.target.table],
                           LAMBDA other : /\ row[relation.source_column] # Null
                                          /\ other[relation.target_column]
                                             = row[relation.source_column])
    IN  IF found = <<>> THEN <<[i \in DOMAIN relation.target.columns |-> Null]>> ELSE found
\* A row, its related row and the row of a second relation.
Combinations(program, db) ==
    LET relations == Calls(program, "also")
        with(rows, call) ==
            FlattenSeq([r \in DOMAIN rows |->
                LET others == Related(call.relation, rows[r][1], db)
                IN  [o \in DOMAIN others |-> Append(rows[r], others[o])]])
        rows == db[program.entity.table]
        combined == Folded(with, [r \in DOMAIN rows |-> <<rows[r]>>], relations)
    IN  SelectSeq(combined, LAMBDA row :
            /\ Satisfies(row[1], Calls(program, "filter"))
            /\ relations # <<>> => Satisfies(row[2], Calls(program, "filter_related"))
            /\ Len(relations) = 2 => Satisfies(row[3], Calls(program, "filter_related2")))
\* Keys over the row itself, then over the row it is joined with.
InOrder(program, a, b) ==
    LET calls == SelectSeq(program.calls,
                           LAMBDA call : call.call \in {"order_by", "order_by_related"})
        keys == [i \in DOMAIN calls |-> calls[i].key]
        value(row, i) == row[IF calls[i].call = "order_by" THEN 1 ELSE 2][keys[i].column]
        values(row) == [i \in DOMAIN calls |-> value(row, i)]
    IN  ~RowBefore(keys, values(b), values(a))

\* The groups of rows with equal keys; a row of output is the keys, then the aggregates.
GroupOutputs(program, rows) ==
    LET group == Calls(program, "group_by")[1]
        keys(row) == [i \in DOMAIN group.columns |-> row[1][group.columns[i]]]
        all == {keys(rows[r]) : r \in DOMAIN rows}
        members(key) == SelectSeq(rows, LAMBDA row : keys(row) = key)
        aggregate(spec, key) ==
            IF spec.column = None THEN Len(members(key))
            ELSE AggregateOf(spec.function,
                    [i \in DOMAIN members(key) |-> members(key)[i][1][spec.column[1]]])
        output(key) == key \o [i \in DOMAIN group.aggregates |-> aggregate(group.aggregates[i], key)]
    IN  {output(key) : key \in all}
KeysInOrder(program, a, b) ==
    LET width == Len(Calls(program, "group_by")[1].columns)
        keys == [i \in 1..width |-> OrderKey(i, "Ascending", "Last")]
    IN  Made(program, "order_by_keys") => ~RowBefore(keys, b, a)

\* The last of the row counts given.
GivenCount(program, name) ==
    IF Made(program, name) THEN Some(Last(Calls(program, name)).count) ELSE None
Portion(program, rows) == Slice(rows, GivenCount(program, "offset"), GivenCount(program, "limit"))
Arrangements(rows) ==
    {[i \in DOMAIN rows |-> rows[p[i]]] : p \in Permutations(DOMAIN rows)}
Projected(program, row) ==
    IF Made(program, "select_as")
    THEN LET columns == Last(Calls(program, "select_as")).columns
         IN  <<[i \in DOMAIN columns |-> row[1][columns[i]]]>>
    ELSE row
\* A related entity all of NULLs is none.
Delivered(row) ==
    [p \in DOMAIN row |->
        IF p > 1 /\ \A i \in DOMAIN row[p] : row[p][i] = Null THEN None ELSE Some(row[p])]

ReadMeans(program, db, rows) ==
    LET combined == Combinations(program, db)
        all == IF Made(program, "distinct") THEN Deduplicated(combined) ELSE combined
    IN  CASE Made(program, "into_count") -> rows = <<<<Some(<<Len(Portion(program, all))>>)>>>>
          [] Made(program, "exists") -> rows = <<<<Some(<<Portion(program, all) # <<>>>>)>>>>
          [] Made(program, "group_by") ->
                LET kept == {output \in GroupOutputs(program, all) :
                                Satisfies(output, Calls(program, "having"))}
                IN  /\ Len(rows) = Cardinality(kept)
                    /\ {rows[r][1][1] : r \in DOMAIN rows} = kept
                    /\ \A i, j \in DOMAIN rows :
                          i < j => KeysInOrder(program, rows[i][1][1], rows[j][1][1])
          [] OTHER ->
                \E arranged \in Arrangements(all) :
                    /\ \A i, j \in DOMAIN all : i < j => InOrder(program, arranged[i], arranged[j])
                    /\ rows = [r \in DOMAIN Portion(program, arranged) |->
                                  Delivered(Projected(program, Portion(program, arranged)[r]))]

-----------------------------------------------------------------------------
(* Changes.                                                                  *)

InsertedRows(program) ==
    LET calls == Calls(program, "values")
    IN  <<program.row>> \o [i \in DOMAIN calls |-> calls[i].row]
ConflictOf(program) ==
    IF Made(program, "on_conflict") THEN Last(Calls(program, "on_conflict")).conflict
    ELSE [do |-> "error", target |-> <<>>, update |-> <<>>]
\* A row as inserted, but for the key the database makes up.
SameRow(entity, given, row) ==
    \A i \in DOMAIN entity.columns : entity.columns[i].auto \/ given[i] = row[i]

\* The columns a conflicting row takes from the one that was to be inserted.
TakenColumns(program) ==
    LET conflict == ConflictOf(program)
    IN  IF conflict.do = "targeted_update" THEN ToSet(conflict.update)
        ELSE {i \in DOMAIN program.entity.columns : ~program.entity.columns[i].key}
InsertMeans(program, db, got) ==
    LET entity == program.entity
        before == db[entity.table]
        after == got.db[entity.table]
        given == InsertedRows(program)
        key(row) == KeyOf(entity, row)
        conflict == ConflictOf(program).do
        \* No row clashes where the key is made up or there is none.
        unclashing == PrimaryKey(entity) = <<>> \/ \E i \in DOMAIN entity.columns : entity.columns[i].auto
        present(row) == \E b \in ToSet(before) : key(b) = key(row)
        repeated == \E i, j \in DOMAIN given : i # j /\ key(given[i]) = key(given[j])
        added == IF unclashing THEN given
                 ELSE LET new == {i \in DOMAIN given :
                                     /\ ~present(given[i])
                                     /\ \A j \in 1..(i - 1) : key(given[i]) # key(given[j])}
                      IN  [i \in 1..Cardinality(new) |-> given[SetToSortSeq(new, <)[i]]]
        taken(old, row) == [i \in DOMAIN old |-> IF i \in TakenColumns(program) THEN row[i] ELSE old[i]]
        update == conflict \in {"update_inserted", "targeted_update"}
        fails == /\ ~unclashing
                 /\ \/ conflict = "error" /\ (repeated \/ \E row \in ToSet(given) : present(row))
                    \/ update /\ repeated
    IN  IF fails THEN got.error # ok /\ after = before
        ELSE /\ got.error = ok
             /\ PrimaryKey(entity) = <<>> \/ IsInjective([i \in DOMAIN after |-> key(after[i])])
             /\ Len(after) = Len(before) + Len(added)
             /\ \A i \in DOMAIN added : SameRow(entity, added[i], after[Len(before) + i])
             /\ \A i \in DOMAIN before :
                   LET same == {row \in ToSet(given) : ~unclashing /\ key(row) = key(before[i])}
                   IN  IF update /\ same # {}
                       THEN \E row \in same : after[i] = taken(before[i], row)
                       ELSE after[i] = before[i]
             /\ IF Made(program, "returning")
                THEN LET touched == IF update THEN given ELSE added
                     IN  /\ Len(got.rows) = Len(touched)
                         /\ {got.rows[r][1][1] : r \in DOMAIN got.rows} \subseteq ToSet(after)
                ELSE got.affected = IF update THEN Len(given) ELSE Len(added)

\* The rows a bounded mutation is about.
Chosen(program, row) == Satisfies(row, Calls(program, "filter"))
ChangeMeans(program, db, got) ==
    LET before == db[program.entity.table]
        after == got.db[program.entity.table]
        sets == Calls(program, "set")
        change(row) ==
            [i \in DOMAIN row |->
                IF \E s \in DOMAIN sets : sets[s].column = i
                THEN sets[CHOOSE s \in DOMAIN sets : sets[s].column = i].value ELSE row[i]]
        chosen == SelectSeq(before, LAMBDA row : Chosen(program, row))
        touched == IF program.start = "delete" THEN chosen
                   ELSE [i \in DOMAIN chosen |-> change(chosen[i])]
    IN  /\ got.error = ok
        /\ after = IF program.start = "delete"
                   THEN SelectSeq(before, LAMBDA row : ~Chosen(program, row))
                   ELSE [i \in DOMAIN before |->
                            IF Chosen(program, before[i]) THEN change(before[i]) ELSE before[i]]
        /\ IF Made(program, "returning")
           THEN got.rows = [i \in DOMAIN touched |-> <<Some(touched[i])>>]
           ELSE got.affected = Len(touched)

Means(program, db, got) ==
    /\ \A table \in DOMAIN db : table # program.entity.table => got.db[table] = db[table]
    /\ CASE program.start = "find" ->
              /\ got.error = ok /\ got.db = db
              /\ ReadMeans(program, db, got.rows)
         [] program.start = "insert" -> InsertMeans(program, db, got)
         [] OTHER -> ChangeMeans(program, db, got)

-----------------------------------------------------------------------------
(* The mistakes the builders document, each refused before any statement is  *)
(* sent.                                                                     *)

TooManyValues(count) == count > U32Max + 1
RowMissesValue(entity, row) ==
    \E i \in DOMAIN entity.columns :
        ~entity.columns[i].auto /\ ~entity.columns[i].nullable /\ row[i] = Null
ReadMistake(program) ==
    \/ Made(program, "distinct") /\ (Made(program, "also") \/ Made(program, "select_as"))
    \/ /\ Made(program, "group_by")
       /\ \/ Made(program, "limit") \/ Made(program, "offset")
          \/ ~IsInjective(Calls(program, "group_by")[1].columns)
ArbiterMistake(entity, rows, conflict) ==
    \E i \in ToSet(conflict.target) :
        entity.columns[i].auto \/ \E row \in ToSet(rows) : row[i] = Null
InsertMistake(program) ==
    LET entity == program.entity
        rows == InsertedRows(program)
        conflict == ConflictOf(program)
        given == {i \in DOMAIN entity.columns : ~entity.columns[i].auto}
        keys == ToSet(PrimaryKey(entity))
    IN  \/ \E row \in ToSet(rows) : Len(row) # Len(entity.columns) \/ RowMissesValue(entity, row)
        \/ given = {} \/ Len(rows) > U32Max
        \/ TooManyValues(Len(rows) * Cardinality(given))
        \/ conflict.do = "update_inserted" /\ (keys = {} \/ ~(keys \subseteq given) \/ given \subseteq keys)
        \/ /\ conflict.do \in {"targeted_ignore", "targeted_update"}
           /\ ArbiterMistake(entity, rows, conflict)
        \/ /\ conflict.do = "targeted_update"
           /\ \/ conflict.update = <<>>
              \/ ~(ToSet(conflict.update) \subseteq given \ ToSet(conflict.target))
RECURSIVE ValuesIn(_)
ValuesIn(expr) ==
    CASE expr.node = "value" -> 1
      [] expr.node = "unary" -> ValuesIn(expr.operand)
      [] expr.node = "binary" -> ValuesIn(expr.left) + ValuesIn(expr.right)
      [] OTHER -> 0
ChangeTakesTooMany(program) ==
    LET filters == Calls(program, "filter")
    IN  TooManyValues(Len(Calls(program, "set"))
                      + Folded(LAMBDA sum, call : sum + ValuesIn(call.expr), 0, filters))
Unbounded(program) == ~Made(program, "filter") /\ ~Made(program, "all_rows")
UpdateMistake(program) ==
    LET sets == Calls(program, "set")
    IN  \/ sets = <<>> \/ Unbounded(program) \/ ChangeTakesTooMany(program)
        \/ \E i, j \in DOMAIN sets : i # j /\ sets[i].column = sets[j].column
        \/ \E i \in DOMAIN sets :
              sets[i].value = Null /\ ~program.entity.columns[sets[i].column].nullable
Mistaken(program) ==
    CASE program.start = "find" -> ReadMistake(program)
      [] program.start = "insert" -> InsertMistake(program)
      [] program.start = "update" -> UpdateMistake(program)
      [] program.start = "delete" -> Unbounded(program) \/ ChangeTakesTooMany(program)
==============================================================================
