------------------------------ MODULE Pagination ------------------------------
(***************************************************************************)
(* One reader that goes through a query page by page while others insert and *)
(* delete rows between its statements.  The reader either walks by keyset     *)
(* (crates/jetorm-query/src/cursor.rs, and CursorExecute of                   *)
(* crates/jetorm-executor/src/paginate.rs), resuming each time after the key  *)
(* of the last row, or asks a Paginator (the same file) for pages by number,  *)
(* in any order, and for totals.                                             *)
(***************************************************************************)
EXTENDS SelectQuery

CONSTANTS
    CursorBases,    \* selects a cursor is made of
    CursorKeys,     \* tuples of columns, unique as a whole
    PagedBases,     \* selects a paginator is made of
    PageSizes,      \* rows a page may have
    MaxChanges      \* bound: rows inserted and deleted during a walk

ASSUME PageSizeAssumption == PageSizes \subseteq 1..U64Max

VARIABLES
    table,          \* the rows there are
    reader,         \* a Walker with its cursor, unbounded, or a Paginator
    edge,           \* the key a walk resumes from, or NoKey
    seen,           \* the rows a walk delivered, in the order a caller would list them
    done,           \* the last page of the walk was empty
    kept,           \* rows there have been since the walk began
    pages,          \* the numbered pages fetched since the last write
    total,          \* num_items since the last write, or NoCount
    changes

progress == <<edge, seen, done>>
vars == <<table, reader, progress, kept, pages, total, changes>>

NoKey == <<>>

-----------------------------------------------------------------------------
(* The cursor.                                                               *)

CursorBy(select, key) == [select |-> [select EXCEPT !.order = <<>>], key |-> key]

\* Mutant: rows that share the leading column with the boundary are lost.
LexicographicNoTie(strict, equal) == strict[1]
\* a > x OR (a = x AND (b > y OR ...))
Lexicographic(strict, equal) ==
    LET n == Len(strict)
        from[i \in 1..n] ==
            IF i = n THEN strict[n] ELSE strict[i] \cup (equal[i] \cap from[i + 1])
    IN  from[1]

Equal(key, at) == [i \in DOMAIN key |-> {r \in Rows : r[key[i]] = at[i]}]
AfterExpr(key, at) ==
    Lexicographic([i \in DOMAIN key |-> {r \in Rows : r[key[i]] > at[i]}], Equal(key, at))
BeforeExpr(key, at) ==
    Lexicographic([i \in DOMAIN key |-> {r \in Rows : r[key[i]] < at[i]}], Equal(key, at))
OrderKeys(key, descending) ==
    [i \in DOMAIN key |-> [column |-> key[i], desc |-> descending]]

ASSUME BasesAssumption == CursorBases \subseteq Selects /\ PagedBases \subseteq Selects
ASSUME KeysAssumption ==
    \A key \in CursorKeys : key \in Seq(Columns) /\ key # <<>> /\ IsTotal(OrderKeys(key, FALSE))

After(c, at) == [c EXCEPT !.select = Filter(@, AfterExpr(c.key, at))]
Before(c, at) == [c EXCEPT !.select = Filter(@, BeforeExpr(c.key, at))]

CursorPage(c, n, descending) ==
    [select |-> Limit(FoldLeft(OrderBy, c.select, OrderKeys(c.key, descending)), n),
     reversed |-> descending]
FirstRows(c, n) == CursorPage(c, n, FALSE)
LastRows(c, n) == CursorPage(c, n, TRUE)

\* CursorExecute::all
All(page, rows, rank) ==
    LET answer == Answer(page.select, rows, rank)
    IN  IF page.reversed THEN Reverse(answer) ELSE answer

KeyOf(c, row) == [i \in DOMAIN c.key |-> row[c.key[i]]]

-----------------------------------------------------------------------------
(* The paginator.                                                            *)

\* Mutant: the product wraps.
PageOffsetWrapping(page, size) == (page * size) % (U64Max + 1)
\* The offset is a u64 and sticks at the greatest.
PageOffset(page, size) == Min({page * size, U64Max})

PageSelect(p, page) == Limit(Offset(p.select, PageOffset(page, p.size)), p.size)

\* Mutant: the last page counts only when it is full.
NumPagesDown(items, size) == items \div size
\* u64::div_ceil
NumPages(items, size) == (items + size - 1) \div size

-----------------------------------------------------------------------------
(* The reader.                                                               *)

\* A cursor goes by after and first, or by before and last.
Walker(base, key, n, ahead) ==
    [kind |-> "walker", cursor |-> CursorBy(base, key), size |-> n, forward |-> ahead]
Paginator(base, n) == [kind |-> "paginator", select |-> base, size |-> n]

Walking == reader.kind = "walker"
Paging == reader.kind = "paginator"

Init ==
    /\ table \in SUBSET Rows
    /\ \/ \E base \in CursorBases, key \in CursorKeys, n \in PageSizes, ahead \in BOOLEAN :
             reader = Walker(base, key, n, ahead)
       \/ \E base \in PagedBases, n \in PageSizes : reader = Paginator(base, n)
    /\ edge = NoKey /\ seen = <<>> /\ done = FALSE
    /\ kept = table
    /\ pages = <<>> /\ total = NoCount
    /\ changes = 0

NextPage ==
    LET c == reader.cursor IN
    CASE edge = NoKey /\ reader.forward  -> FirstRows(c, reader.size)
      [] edge = NoKey /\ ~reader.forward -> LastRows(c, reader.size)
      [] edge # NoKey /\ reader.forward  -> FirstRows(After(c, edge), reader.size)
      [] edge # NoKey /\ ~reader.forward -> LastRows(Before(c, edge), reader.size)

\* The next page of a walk.
Fetch ==
    /\ Walking /\ ~done
    /\ \E rank \in RanksFor(NextPage.select.order) :
       LET rows == All(NextPage, table, rank) IN
       IF rows = <<>>
       THEN done' = TRUE /\ UNCHANGED <<edge, seen>>
       ELSE /\ seen' = IF reader.forward THEN seen \o rows ELSE rows \o seen
            /\ edge' = KeyOf(reader.cursor, IF reader.forward THEN Last(rows) ELSE Head(rows))
            /\ UNCHANGED done
    /\ UNCHANGED <<table, reader, kept, pages, total, changes>>

FetchPage(page) ==
    /\ Paging /\ page \notin DOMAIN pages
    /\ \E rank \in RanksFor(reader.select.order) :
          pages' = [p \in DOMAIN pages \cup {page} |->
                      IF p = page THEN Answer(PageSelect(reader, page), table, rank)
                      ELSE pages[p]]
    /\ UNCHANGED <<table, reader, progress, kept, total, changes>>

NumItems ==
    /\ Paging
    /\ total' = CountAnswer(IntoCount(reader.select), table)
    /\ UNCHANGED <<table, reader, progress, kept, pages, changes>>

\* Another client inserts or deletes a row.  What was paged before is not
\* compared with what is paged after.
Write ==
    /\ \E r \in Rows : table' = IF r \in table THEN table \ {r} ELSE table \cup {r}
    /\ IF Walking
       THEN /\ ~done /\ changes < MaxChanges
            /\ kept' = kept \cap table' /\ changes' = changes + 1
       ELSE kept' = table' /\ UNCHANGED changes
    /\ pages' = <<>> /\ total' = NoCount
    /\ UNCHANGED <<reader, progress>>

Next ==
    \/ Fetch
    \/ \E page \in 0..U64Max : FetchPage(page)
    \/ NumItems
    \/ Write

Spec == Init /\ [][Next]_vars

-----------------------------------------------------------------------------
\* r comes before q by the cursor's key.
KeyBefore(r, q) == OrdersBefore(OrderKeys(reader.cursor.key, FALSE), r, q)

\* A walk to the end (Cursor::after is `the resume point') delivers every row that
\* matches the select and was there all along, whatever others inserted and
\* deleted between its pages; and delivers its rows in ascending key order in both
\* directions, none of them twice.
WalkMissesNothing ==
    Walking =>
        /\ done => kept \cap reader.cursor.select.filter \subseteq ToSet(seen)
        /\ \A i, j \in DOMAIN seen : i < j => KeyBefore(seen[i], seen[j])

\* Numbered pages split the query (Paginator::fetch_page): no row is on two of
\* them, the rows of a page come before those of a later one, and nothing comes
\* after a page that is not full.  That goes for page numbers whose offset leaves
\* u64 or i64 too.
PagesSplitTheQuery ==
    \A p, q \in DOMAIN pages : p < q =>
        /\ \A i \in DOMAIN pages[p], j \in DOMAIN pages[q] :
              /\ pages[p][i] # pages[q][j]
              /\ ~OrdersBefore(reader.select.order, pages[q][j], pages[p][i])
        /\ Len(pages[p]) < reader.size => pages[q] = <<>>

RowsOn(book, numbers) == FoldLeft(LAMBDA n, p : n + Len(book[p]), 0, numbers)

\* The totals are those of the pages (num_items counts `all rows the query
\* matches, across every page'): exactly the pages below num_pages have rows, and
\* together as many as num_items says.
TotalsMatchPages ==
    total # NoCount =>
        LET count == NumPages(total, reader.size) IN
        /\ \A p \in DOMAIN pages : pages[p] # <<>> <=> p < count
        /\ 0..(count - 1) \subseteq DOMAIN pages =>
              total = RowsOn(pages, SetToSeq(0..(count - 1)))

=============================================================================
