---------------------------- MODULE MCIrRendering ----------------------------
EXTENDS IrRendering

Column64(name, nullable) == Column(name, Int64, nullable, FALSE, FALSE)
R == Entity("r", <<Column64("a", FALSE), Column64("b", TRUE)>>)
S == Entity("s", <<Column64("c", TRUE)>>)
Tables == {R, S}

Whole(entity) == ScanEntity(entity)
\* The columns of r the other way round.
Backward == Scan("r", <<<<"b">>, <<"a">>>>, Reverse(EntitySchema(R)))
Integer(value) == [of |-> "integer", value |-> value]
Nothing == [of |-> "null", value |-> Null]
LiteralRows == Values(<<<<Integer(2), Nothing>>, <<Integer(1), Integer(1)>>, <<Integer(2), Nothing>>>>,
                      EntitySchema(R))
AllBases == {Whole(R), Backward, LiteralRows, Empty(EntitySchema(S))}
OneBase == {Whole(R)}
Joinable == Whole(S)

\* Ties, duplicates and NULLs, rows of either side without a match, an empty side.
SomeDatabases == {
    [r |-> <<<<1, Null>>, <<2, 1>>, <<2, 1>>, <<3, 2>>>>, s |-> <<<<2>>, <<Null>>, <<2>>, <<4>>>>],
    [r |-> <<<<2, 1>>, <<1, 2>>>>, s |-> <<>>]}

\* "An empty key list has no region" (operation.rs): a frontend may also sort by nothing.
KeylessSort == Within(Same("sort", [keys |-> <<>>], ir, <<>>))
KeylessSpec == Init /\ [][Next \/ KeylessSort]_vars
==============================================================================
