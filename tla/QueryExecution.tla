---------------------------- MODULE QueryExecution ----------------------------
(***************************************************************************)
(* What running a query does around its statement                           *)
(* (crates/jetorm-executor/src/plan.rs, database.rs, value.rs, select.rs,     *)
(* join.rs, scalar.rs and mutation.rs): the query is validated, lowered and   *)
(* rendered; the statement's placeholders take their values from the bind    *)
(* table of the query; the rows that come back are decoded by position into   *)
(* what the builder promises.                                                *)
(***************************************************************************)
EXTENDS PostgresServer

\* The statement of a query, or why it has none.
RenderLowered(lowered) ==
    IF lowered.error # ok THEN Refused(lowered.error) ELSE RenderStatement(lowered.module)
RenderQuery(query) == RenderLowered(IntoIr(query))

-----------------------------------------------------------------------------
(* Binding.                                                                  *)

\* Mutant: values are bound in the order they were captured.
BuildQueryUnordered(statement, binds) ==
    [n \in DOMAIN statement.bind_order |-> binds[n]]
\* The values of the placeholders.
BuildQuery(statement, binds) ==
    [n \in DOMAIN statement.bind_order |-> binds[statement.bind_order[n] + 1]]
MissingBind(statement, binds) ==
    \E n \in DOMAIN statement.bind_order : statement.bind_order[n] + 1 \notin DOMAIN binds

-----------------------------------------------------------------------------
(* Decoding.  A row is one or several parts: the entity, then the related    *)
(* entities, each of them absent when its join key came back NULL.           *)

\* A named type travels as text.
WireKind(ty) == IF IsCustom(ty) THEN <<"utf8">> ELSE ty.kind
Part(types, key) == [types |-> types, key |-> key]
Parts(query) ==
    LET entity == ColumnTypes(query.entity)
        pick(columns) == [i \in DOMAIN columns |-> entity[columns[i]]]
    IN  CASE query.kind = "count" -> <<Part(<<Scalar(Int64, FALSE)>>, None)>>
          [] query.kind = "exists" -> <<Part(<<Boolean(FALSE)>>, None)>>
          [] query.kind = "grouped" ->
                LET group == query.group[1]
                IN  <<Part(pick(group.keys)
                           \o [i \in DOMAIN group.aggregates |-> group.aggregates[i].ty], None)>>
          [] query.kind = "select" /\ query.projection # None ->
                <<Part(pick(query.projection[1]), None)>>
          [] query.kind \in {"join", "join2"} ->
                <<Part(entity, None)>>
                \o [i \in DOMAIN query.relations |->
                       Part(ColumnTypes(query.relations[i].target),
                            Some(query.relations[i].target_column))]
          [] OTHER -> <<Part(entity, None)>>
ExpectedKinds(query) ==
    FlattenSeq([p \in DOMAIN Parts(query) |->
                   [i \in DOMAIN Parts(query)[p].types |-> WireKind(Parts(query)[p].types[i])]])
\* The kinds the driver reports.
ReturnedKinds(sql) ==
    IF "select" \in DOMAIN sql THEN SelectKinds(sql)
    ELSE LET entity == Table(CASE "insert" \in DOMAIN sql -> sql.insert
                               [] "update" \in DOMAIN sql -> sql.update
                               [] "delete" \in DOMAIN sql -> sql.delete)
         IN  [i \in DOMAIN sql.returning |->
                 IF sql.returning[i].text THEN <<"utf8">>
                 ELSE entity.columns[ColumnIndex(entity, sql.returning[i].name)].kind]

DecodePart(part, values) ==
    IF part.key # None /\ values[part.key[1]] = Null THEN [error |-> ok, value |-> None]
    ELSE [error |-> Check(\A i \in DOMAIN values : values[i] # Null \/ part.types[i].nullable,
                          "Decode"),
          value |-> Some(values)]
DecodeRow(parts, row) ==
    LET start(p) == Folded(LAMBDA sum, part : sum + Len(part.types), 0, SubSeq(parts, 1, p - 1))
        decoded == [p \in DOMAIN parts |->
                       DecodePart(parts[p], SubSeq(row, start(p) + 1,
                                                   start(p) + Len(parts[p].types)))]
    IN  [error |-> FirstError([p \in DOMAIN decoded |-> decoded[p].error]),
         value |-> [p \in DOMAIN decoded |-> decoded[p].value]]

-----------------------------------------------------------------------------
\* What the caller gets: rows, or how many were affected, or an error.
Got(db, rows, affected, error) ==
    [db |-> db, rows |-> rows, affected |-> affected, error |-> error]
ReturnsRows(query) == query.kind \notin {"insert", "update", "delete"} \/ query.returning

\* What comes back, decoded as the query expects it.
Received(query, statement, reply) ==
    LET decoded == [r \in DOMAIN reply.rows |-> DecodeRow(Parts(query), reply.rows[r])]
        error == FirstError([r \in DOMAIN decoded |-> decoded[r].error])
    IN  CASE reply.error # ok -> Got(reply.db, <<>>, 0, reply.error)
          [] ~ReturnsRows(query) -> Got(reply.db, <<>>, Len(reply.rows), ok)
          \* Kinds are compared as each row is decoded.
          [] reply.rows # <<>> /\ ReturnedKinds(statement.sql) # ExpectedKinds(query) ->
                Got(reply.db, <<>>, 0, "Driver")
          [] error # ok -> Got(reply.db, <<>>, 0, error)
          [] OTHER -> Got(reply.db, [r \in DOMAIN decoded |-> decoded[r].value], 0, ok)
\* A statement and the query it is run for.
RunStatement(query, statement, db, backwards) ==
    CASE statement.result # (IF ReturnsRows(query) THEN "rows" ELSE "affected") ->
            Got(db, <<>>, 0, "ResultMismatch")
      [] MissingBind(statement, Binds(query)) -> Got(db, <<>>, 0, "MissingBind")
      [] OTHER ->
            Received(query, statement,
                Execute(statement.sql, db, BuildQuery(statement, Binds(query)), backwards))
==============================================================================
