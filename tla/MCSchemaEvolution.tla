--------------------------- MODULE MCSchemaEvolution ---------------------------
EXTENDS SchemaEvolution, TLC

Column(type, nullable, unique, auto) ==
    [type |-> type, nullable |-> nullable, unique |-> unique, auto |-> auto]

Plain == Column(0, FALSE, FALSE, FALSE)
Unique == Column(0, FALSE, TRUE, FALSE)
Serial == Column(0, FALSE, FALSE, TRUE)
Loose == Column(0, TRUE, FALSE, FALSE)

\* Functions to T from subsets of S.
Partial(S, T) == UNION {[D -> T] : D \in SUBSET S}

\* One table of up to three columns, with any key of up to two of them.
KeysOver(S) == {<<>>} \cup {<<c>> : c \in S} \cup {<<p[1], p[2]>> : p \in {q \in S \X S : q[1] # q[2]}}

ColumnSchemas ==
    {EmptySchema} \cup
    UNION {{[tables |-> (1 :> [columns |-> cs, key |-> k, foreign |-> <<>>]), enums |-> <<>>] :
              k \in KeysOver(DOMAIN cs)} : cs \in Partial(1..3, {Plain, Serial, Loose})}

\* Up to two of tables 1 to 3, of a referable column 1, which has the key or is unique, and a
\* column 2 or 3 that may refer to any of them.
Foreign(t, c, u) ==
    (10 * t + c) :> [column |-> c, table |-> u, target |-> 1, action |-> "no action"]

OwnerOf(t) ==
    UNION {{[columns |-> (1 :> Plain) @@ (c :> Plain), key |-> <<1>>, foreign |-> fk] :
              fk \in {<<>>} \cup {Foreign(t, c, u) : u \in 1..3}} : c \in 2..3}

ReferenceSchemas ==
    {s \in {[tables |-> ts, enums |-> <<>>] :
              ts \in UNION {[D -> UNION {OwnerOf(t) : t \in D}] : D \in {E \in SUBSET (1..3) : Cardinality(E) <= 2}}} :
       (\A t \in Tables(s) : s.tables[t] \in OwnerOf(t)) /\ Valid(s)}

\* The referable column changes between key and unique.
KeyedSchemas ==
    {[tables |-> (1 :> [columns |-> (1 :> one) @@ (2 :> Plain), key |-> key, foreign |-> <<>>])
              @@ (2 :> [columns |-> (1 :> Plain), key |-> <<>>, foreign |-> Foreign(2, 1, 1)]),
      enums |-> <<>>] : one \in {Plain, Unique}, key \in {<<1>>, <<1, 2>>, <<2>>}}

KeySchemas == {s \in KeyedSchemas : Valid(s)}

\* Two columns that may have one of two enum types of one or two variants.
EnumSchemas ==
    {s \in {[tables |-> (1 :> [columns |-> cs, key |-> <<>>, foreign |-> <<>>]), enums |-> es] :
              cs \in Partial(1..2, {Column(t, FALSE, FALSE, FALSE) : t \in {0, 8, 9}}),
              es \in Partial({8, 9}, {<<"a">>, <<"a", "b">>, <<"b">>})} :
       Valid(s)}

AllFamilies == {ColumnSchemas, ReferenceSchemas, KeySchemas, EnumSchemas}
EnumFamily == {EnumSchemas}

=============================================================================
