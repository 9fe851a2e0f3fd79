------------------------------- MODULE MCReads -------------------------------
(* A reader that goes through a query by pages, or one that loads the other    *)
(* side of a relation; the other one is idle.                                 *)
EXTENDS Pagination, RelationLoad, TLC

\* Two columns, unique together; either alone leaves ties.
Grid == {<<1, 1>>, <<1, 2>>, <<2, 1>>, <<2, 2>>}
Hidden == Grid \ {<<1, 2>>}
BothOrders == {<<1, 2>>, <<2, 1>>}
Ascending(column) == [column |-> column, desc |-> FALSE]

\* All rows, or those a filter leaves in an order the cursor replaces.
PlainBases == {Find, OrderBy(Filter(Find, Hidden), [column |-> 2, desc |-> TRUE])}

\* A total order, with and without a filter.
Ordered == OrderBy(OrderBy(Find, Ascending(2)), Ascending(1))
OrderedBases == {Ordered, Filter(Ordered, Hidden)}

FarSymmetry == Permutations(Far)

NoLoad ==
    /\ load = "none" /\ near = <<>> /\ far = <<>> /\ phase = "done" /\ writes = 0
    /\ remaining = <<>> /\ wanted = <<>> /\ answer = <<>> /\ grouped = <<>> /\ dealt = <<>>
NoReader ==
    /\ reader = [kind |-> "none"] /\ table = {} /\ kept = {} /\ changes = 0
    /\ edge = NoKey /\ seen = <<>> /\ done = FALSE /\ pages = <<>> /\ total = NoCount

ReadsInit ==
    \/ Init /\ NoLoad
    \/ LoadInit /\ NoReader
ReadsNext ==
    \/ reader.kind # "none" /\ Next /\ UNCHANGED loadVars
    \/ LoadNext /\ UNCHANGED vars
ReadsSpec == ReadsInit /\ [][ReadsNext]_<<vars, loadVars>>
=============================================================================
