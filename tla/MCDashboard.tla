----------------------------- MODULE MCDashboard -----------------------------
EXTENDS Dashboard, TLC

Basic == [type |-> 0, nullable |-> FALSE, unique |-> FALSE, auto |-> FALSE]

\* One table with the given columns; the first is its key.
TableOf(columns) ==
    [tables |-> (1 :> [columns |-> columns, key |-> <<1>>, foreign |-> <<>>]), enums |-> <<>>]

First == TableOf((1 :> Basic) @@ (2 :> Basic))
\* Column 2 may have been renamed to 3 or 4.
Wanted == TableOf((1 :> Basic) @@ (3 :> Basic) @@ (4 :> Basic))
\* Nothing of what is missing here could be a rename.
Halfway == TableOf((1 :> Basic) @@ (3 :> Basic))
\* One rename, and nothing else.
Renamed == TableOf((1 :> Basic) @@ (3 :> Basic))

Created == Changes(EmptySchema, First)
OnlyHalfway == {Halfway}

=============================================================================
