------------------------------ MODULE MCSchemas ------------------------------
(* One schema engine and three ways to it: entities that keep changing, the  *)
(* dashboard, and migration files edited by hand.  One of them acts, and the  *)
(* others stay as they begin.                                                *)
EXTENDS MCSchemaEvolution, MCDashboard, SchemaReplay

Text == [type |-> "text", nullable |-> FALSE, unique |-> FALSE, auto |-> FALSE]

Empty == [columns |-> <<>>, key |-> <<>>, foreign |-> <<>>]
Keyed == [columns |-> [c \in {"a"} |-> Text], key |-> <<"a">>, foreign |-> <<>>]

KeyLists == {<<>>, <<"a">>}
Defs == {Text, [Text EXCEPT !.type = "e"]}
TableChoices == {Empty, Keyed}

References == [column : ColumnNames, table : TableNames, target : {"a"}, action : {"none"}]

SchemasInit == EvolutionInit /\ Init /\ ReplayInit
Unopened == Init /\ history = {}
SchemasNext ==
    \/ Unopened /\ ReplayInit /\ EvolutionNext /\ UNCHANGED <<vars, replayed>>
    \/ EvolutionInit /\ ReplayInit /\ Next /\ UNCHANGED <<evolutionVars, replayed>>
    \/ EvolutionInit /\ Unopened /\ ReplayNext /\ UNCHANGED <<evolutionVars, vars>>
SchemasSpec == SchemasInit /\ [][SchemasNext]_<<evolutionVars, vars, replayed>>
=============================================================================
