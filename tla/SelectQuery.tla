----------------------------- MODULE SelectQuery -----------------------------
(***************************************************************************)
(* The select builder (crates/jetorm-query/src/select.rs) as pagination uses *)
(* it, and what a database answers to the statement it becomes.              *)
(*                                                                         *)
(* A row is a tuple of column values.  A predicate is the set of the rows it *)
(* holds of: `and' is \cap, `or' is \cup.                                    *)
(***************************************************************************)
EXTENDS Integers, FiniteSets, SequencesExt

CONSTANTS
    Rows,           \* rows a table may hold
    U64Max, I64Max  \* the greatest u64 and i64

ASSUME WidthAssumption == I64Max \in Nat /\ U64Max \in Nat /\ I64Max < U64Max
\* No table has more rows than an i64 counts.
ASSUME TableAssumption == IsFiniteSet(Rows) /\ Cardinality(Rows) <= I64Max

NoCount == -1

Columns == UNION {DOMAIN r : r \in Rows}
ASSUME RowsAssumption == \A r \in Rows : DOMAIN r = Columns /\ \A c \in Columns : r[c] \in Int

Orders == Seq([column : Columns, desc : BOOLEAN])
Selects == [filter : SUBSET Rows, order : Orders,
            offset : Nat \cup {NoCount}, fetch : Nat \cup {NoCount}]

Find == [filter |-> Rows, order |-> <<>>, offset |-> NoCount, fetch |-> NoCount]
Filter(select, predicate) == [select EXCEPT !.filter = @ \cap predicate]
OrderBy(select, key) == [select EXCEPT !.order = Append(@, key)]
Limit(select, n) == [select EXCEPT !.fetch = n]
Offset(select, n) == [select EXCEPT !.offset = n]

\* Select::into_count keeps the row limit and the offset.
IntoCount(select) == [select EXCEPT !.order = <<>>]

\* push_count_binds: counts are bound as i64.
CountBind(n) == Min({n, I64Max})

-----------------------------------------------------------------------------
(* The database.  A tie in the order is broken by a rank of its choice.      *)

OrdersBefore(order, r, q) ==
    \E i \in DOMAIN order :
       /\ IF order[i].desc THEN r[order[i].column] > q[order[i].column]
                           ELSE r[order[i].column] < q[order[i].column]
       /\ \A j \in 1..(i - 1) : r[order[j].column] = q[order[j].column]

IsTotal(order) ==
    \A r, q \in Rows : r = q \/ OrdersBefore(order, r, q) \/ OrdersBefore(order, q, r)

Ranks == {rank \in [Rows -> 1..Cardinality(Rows)] : IsInjective(rank)}

\* The rows before r in the listing.
Ahead(order, rank, rows, r) ==
    {q \in rows : \/ OrdersBefore(order, q, r)
                  \/ ~OrdersBefore(order, r, q) /\ rank[q] < rank[r]}

Listing(order, rank, rows) ==
    [i \in 1..Cardinality(rows) |->
        CHOOSE r \in rows : Cardinality(Ahead(order, rank, rows, r)) = i - 1]

\* The answers to a select of a table: one per rank.
Answer(select, table, rank) ==
    LET listing == Listing(select.order, rank, table \cap select.filter)
        skipped == IF select.offset = NoCount THEN 0 ELSE CountBind(select.offset)
        last == IF select.fetch = NoCount THEN Len(listing)
                ELSE Min({Len(listing), skipped + CountBind(select.fetch)})
    IN  SubSeq(listing, skipped + 1, last)

\* A total order leaves no tie: any rank will do.
AnyRank == CHOOSE rank \in [Rows -> 1..Cardinality(Rows)] : IsInjective(rank)
RanksFor(order) == IF IsTotal(order) THEN {AnyRank} ELSE Ranks

CountAnswer(select, table) == Len(Answer(select, table, AnyRank))

=============================================================================
