-------------------------------- MODULE Schema --------------------------------
(***************************************************************************)
(* SchemaSet of crates/jetorm-schema: tables with columns, a primary key and *)
(* foreign keys, and enum types, all kept in maps by name; and apply.rs,     *)
(* what each schema change demands of a schema and makes of it.              *)
(*                                                                           *)
(* A column's type stands for its column type and its named type together,   *)
(* which are compared and changed together.                                  *)
(***************************************************************************)
EXTENDS Naturals, Sequences, FiniteSets

Put(f, k, v) == [x \in DOMAIN f \cup {k} |-> IF x = k THEN v ELSE f[x]]
Without(f, k) == [x \in DOMAIN f \ {k} |-> f[x]]
ElementsOf(s) == {s[i] : i \in DOMAIN s}

EmptySchema == [tables |-> <<>>, enums |-> <<>>]

Tables(s) == DOMAIN s.tables
Enums(s) == DOMAIN s.enums
HasColumn(s, t, c) == t \in Tables(s) /\ c \in DOMAIN s.tables[t].columns

WithTable(s, t, def) == [s EXCEPT !.tables = Put(s.tables, t, def)]
WithColumn(s, t, c, column) ==
    WithTable(s, t, [s.tables[t] EXCEPT !.columns = Put(s.tables[t].columns, c, column)])

Accept(s) == [answer |-> "ok", schema |-> s]
Reject(s, error) == [answer |-> error, schema |-> s]

-----------------------------------------------------------------------------
(* The changes (SchemaChange), as a migration records them.                *)

CreateTable(t, def) == [change |-> "CreateTable", table |-> t, def |-> def]
DropTable(t) == [change |-> "DropTable", table |-> t]
RenameTable(from, to) == [change |-> "RenameTable", table |-> from, to |-> to]
AddColumn(t, c, column) == [change |-> "AddColumn", table |-> t, name |-> c, column |-> column]
DropColumn(t, c) == [change |-> "DropColumn", table |-> t, name |-> c]
RenameColumn(t, from, to) == [change |-> "RenameColumn", table |-> t, name |-> from, to |-> to]
AlterColumnType(t, c, from, to) ==
    [change |-> "AlterColumnType", table |-> t, name |-> c, from |-> from, to |-> to]
SetNullable(t, c, nullable) == [change |-> "SetNullable", table |-> t, name |-> c, to |-> nullable]
SetUnique(t, c, unique) == [change |-> "SetUnique", table |-> t, name |-> c, to |-> unique]
SetAutoIncrement(t, c, auto) == [change |-> "SetAutoIncrement", table |-> t, name |-> c, to |-> auto]
SetPrimaryKey(t, from, to) == [change |-> "SetPrimaryKey", table |-> t, from |-> from, to |-> to]
AddForeignKey(t, f, foreign) == [change |-> "AddForeignKey", table |-> t, name |-> f, foreign |-> foreign]
DropForeignKey(t, f) == [change |-> "DropForeignKey", table |-> t, name |-> f]
CreateEnum(e, variants) == [change |-> "CreateEnum", enum |-> e, variants |-> variants]
AddEnumVariant(e, variant) == [change |-> "AddEnumVariant", enum |-> e, variant |-> variant]
DropEnum(e) == [change |-> "DropEnum", enum |-> e]

-----------------------------------------------------------------------------
(* apply, one operator per change.                                         *)

\* The constraint of another table (or one on column c) that targets t.
ReferencedByOther(s, t) ==
    \E u \in Tables(s) \ {t} : \E f \in DOMAIN s.tables[u].foreign :
       s.tables[u].foreign[f].table = t

ColumnReferencedByOther(s, t, c) ==
    \E u \in Tables(s) \ {t} : \E f \in DOMAIN s.tables[u].foreign :
       s.tables[u].foreign[f].table = t /\ s.tables[u].foreign[f].target = c

ApplyCreateTable(s, x) ==
    IF x.table \in Tables(s) THEN Reject(s, "TableExists")
    ELSE Accept(WithTable(s, x.table, x.def))

ApplyDropTable(s, x) ==
    IF ReferencedByOther(s, x.table) THEN Reject(s, "StillReferenced")
    ELSE IF x.table \notin Tables(s) THEN Reject(s, "TableMissing")
    ELSE Accept([s EXCEPT !.tables = Without(s.tables, x.table)])

\* References to a renamed table follow it.
Retargeted(foreign, from, to) ==
    [f \in DOMAIN foreign |->
       IF foreign[f].table = from THEN [foreign[f] EXCEPT !.table = to] ELSE foreign[f]]

\* Mutant: a table of the new name is replaced.
ApplyRenameTableOver(s, x) ==
    LET moved == Put(Without(s.tables, x.table), x.to, s.tables[x.table]) IN
    IF x.table \notin Tables(s) THEN Reject(s, "TableMissing")
    ELSE Accept([s EXCEPT !.tables =
                    [t \in DOMAIN moved |->
                       [moved[t] EXCEPT !.foreign = Retargeted(moved[t].foreign, x.table, x.to)]]])

ApplyRenameTable(s, x) ==
    LET moved == Put(Without(s.tables, x.table), x.to, s.tables[x.table]) IN
    IF x.to \in Tables(s) THEN Reject(s, "TableExists")
    ELSE IF x.table \notin Tables(s) THEN Reject(s, "TableMissing")
    ELSE Accept([s EXCEPT !.tables =
                    [t \in DOMAIN moved |->
                       [moved[t] EXCEPT !.foreign = Retargeted(moved[t].foreign, x.table, x.to)]]])

ApplyAddColumn(s, x) ==
    IF x.table \notin Tables(s) THEN Reject(s, "TableMissing")
    ELSE IF HasColumn(s, x.table, x.name) THEN Reject(s, "ColumnExists")
    ELSE Accept(WithColumn(s, x.table, x.name, x.column))

\* Mutant: a self-reference onto the dropped column stays.
ApplyDropColumnShallow(s, x) ==
    LET def == s.tables[x.table]
        kept == {f \in DOMAIN def.foreign : def.foreign[f].column # x.name}
    IN  IF ColumnReferencedByOther(s, x.table, x.name) THEN Reject(s, "StillReferenced")
        ELSE IF x.table \notin Tables(s) THEN Reject(s, "TableMissing")
        ELSE IF x.name \notin DOMAIN def.columns THEN Reject(s, "ColumnMissing")
        ELSE Accept(WithTable(s, x.table,
                       [def EXCEPT !.columns = Without(def.columns, x.name),
                                   !.foreign = [f \in kept |-> def.foreign[f]]]))

\* The table's own constraints that involve the column go with it; the list of
\* the primary key does not change.
ApplyDropColumn(s, x) ==
    LET def == s.tables[x.table]
        kept == {f \in DOMAIN def.foreign :
                   /\ def.foreign[f].column # x.name
                   /\ ~(def.foreign[f].table = x.table /\ def.foreign[f].target = x.name)}
    IN  IF ColumnReferencedByOther(s, x.table, x.name) THEN Reject(s, "StillReferenced")
        ELSE IF x.table \notin Tables(s) THEN Reject(s, "TableMissing")
        ELSE IF x.name \notin DOMAIN def.columns THEN Reject(s, "ColumnMissing")
        ELSE Accept(WithTable(s, x.table,
                       [def EXCEPT !.columns = Without(def.columns, x.name),
                                   !.foreign = [f \in kept |-> def.foreign[f]]]))

\* What a renamed column does to a constraint of table owner: the owning side
\* follows within the table, the referenced side wherever it is.
Followed(foreign, owner, x) ==
    [f \in DOMAIN foreign |->
       [foreign[f] EXCEPT
          !.column = IF owner = x.table /\ foreign[f].column = x.name THEN x.to ELSE foreign[f].column,
          !.target = IF foreign[f].table = x.table /\ foreign[f].target = x.name
                     THEN x.to ELSE foreign[f].target]]

ApplyRenameColumn(s, x) ==
    LET def == s.tables[x.table]
        columns == Put(Without(def.columns, x.name), x.to, def.columns[x.name])
        key == [i \in DOMAIN def.key |-> IF def.key[i] = x.name THEN x.to ELSE def.key[i]]
        renamed == Put(s.tables, x.table, [def EXCEPT !.columns = columns, !.key = key])
    IN  IF x.table \notin Tables(s) THEN Reject(s, "TableMissing")
        ELSE IF x.to \in DOMAIN def.columns THEN Reject(s, "ColumnExists")
        ELSE IF x.name \notin DOMAIN def.columns THEN Reject(s, "ColumnMissing")
        ELSE Accept([s EXCEPT !.tables =
                        [t \in DOMAIN renamed |->
                           [renamed[t] EXCEPT !.foreign = Followed(renamed[t].foreign, t, x)]]])

ApplyAlterColumnType(s, x) ==
    LET column == s.tables[x.table].columns[x.name] IN
    IF x.table \notin Tables(s) THEN Reject(s, "TableMissing")
    ELSE IF ~HasColumn(s, x.table, x.name) THEN Reject(s, "ColumnMissing")
    ELSE IF column.type # x.from THEN Reject(s, "StateMismatch")
    ELSE Accept(WithColumn(s, x.table, x.name, [column EXCEPT !.type = x.to]))

\* SetNullable, SetUnique and SetAutoIncrement record no former state.
ApplySetFlag(s, x) ==
    LET column == s.tables[x.table].columns[x.name] IN
    IF x.table \notin Tables(s) THEN Reject(s, "TableMissing")
    ELSE IF ~HasColumn(s, x.table, x.name) THEN Reject(s, "ColumnMissing")
    ELSE Accept(WithColumn(s, x.table, x.name,
                   CASE x.change = "SetNullable" -> [column EXCEPT !.nullable = x.to]
                     [] x.change = "SetUnique" -> [column EXCEPT !.unique = x.to]
                     [] x.change = "SetAutoIncrement" -> [column EXCEPT !.auto = x.to]))

ApplySetPrimaryKey(s, x) ==
    LET def == s.tables[x.table] IN
    IF x.table \notin Tables(s) THEN Reject(s, "TableMissing")
    ELSE IF def.key # x.from THEN Reject(s, "StateMismatch")
    ELSE IF ~(ElementsOf(x.to) \subseteq DOMAIN def.columns) THEN Reject(s, "ColumnMissing")
    ELSE Accept(WithTable(s, x.table, [def EXCEPT !.key = x.to]))

\* A column the database lets a foreign key refer to.
Referable(s, t, c) ==
    HasColumn(s, t, c) /\ (s.tables[t].columns[c].unique \/ s.tables[t].key = <<c>>)

ApplyAddForeignKey(s, x) ==
    IF x.table \notin Tables(s) THEN Reject(s, "TableMissing")
    ELSE IF x.name \in DOMAIN s.tables[x.table].foreign THEN Reject(s, "ForeignKeyExists")
    ELSE IF ~HasColumn(s, x.table, x.foreign.column) THEN Reject(s, "ColumnMissing")
    ELSE IF x.foreign.table \notin Tables(s) THEN Reject(s, "TableMissing")
    ELSE IF ~HasColumn(s, x.foreign.table, x.foreign.target) THEN Reject(s, "ColumnMissing")
    ELSE IF ~Referable(s, x.foreign.table, x.foreign.target) THEN Reject(s, "StateMismatch")
    ELSE Accept(WithTable(s, x.table,
                   [s.tables[x.table] EXCEPT !.foreign = Put(s.tables[x.table].foreign, x.name, x.foreign)]))

ApplyDropForeignKey(s, x) ==
    IF x.table \notin Tables(s) THEN Reject(s, "TableMissing")
    ELSE IF x.name \notin DOMAIN s.tables[x.table].foreign THEN Reject(s, "ForeignKeyMissing")
    ELSE Accept(WithTable(s, x.table,
                   [s.tables[x.table] EXCEPT !.foreign = Without(s.tables[x.table].foreign, x.name)]))

ApplyCreateEnum(s, x) ==
    IF x.enum \in Enums(s) THEN Reject(s, "EnumExists")
    ELSE Accept([s EXCEPT !.enums = Put(s.enums, x.enum, x.variants)])

ApplyAddEnumVariant(s, x) ==
    IF x.enum \notin Enums(s) THEN Reject(s, "EnumMissing")
    ELSE IF x.variant \in ElementsOf(s.enums[x.enum]) THEN Reject(s, "EnumVariantExists")
    ELSE Accept([s EXCEPT !.enums = Put(s.enums, x.enum, Append(s.enums[x.enum], x.variant))])

ApplyDropEnum(s, x) ==
    IF \E t \in Tables(s) : \E c \in DOMAIN s.tables[t].columns :
          s.tables[t].columns[c].type = x.enum
    THEN Reject(s, "EnumInUse")
    ELSE IF x.enum \notin Enums(s) THEN Reject(s, "EnumMissing")
    ELSE Accept([s EXCEPT !.enums = Without(s.enums, x.enum)])

Apply(s, x) ==
    CASE x.change = "CreateTable" -> ApplyCreateTable(s, x)
      [] x.change = "DropTable" -> ApplyDropTable(s, x)
      [] x.change = "RenameTable" -> ApplyRenameTable(s, x)
      [] x.change = "AddColumn" -> ApplyAddColumn(s, x)
      [] x.change = "DropColumn" -> ApplyDropColumn(s, x)
      [] x.change = "RenameColumn" -> ApplyRenameColumn(s, x)
      [] x.change = "AlterColumnType" -> ApplyAlterColumnType(s, x)
      [] x.change \in {"SetNullable", "SetUnique", "SetAutoIncrement"} -> ApplySetFlag(s, x)
      [] x.change = "SetPrimaryKey" -> ApplySetPrimaryKey(s, x)
      [] x.change = "AddForeignKey" -> ApplyAddForeignKey(s, x)
      [] x.change = "DropForeignKey" -> ApplyDropForeignKey(s, x)
      [] x.change = "CreateEnum" -> ApplyCreateEnum(s, x)
      [] x.change = "AddEnumVariant" -> ApplyAddEnumVariant(s, x)
      [] x.change = "DropEnum" -> ApplyDropEnum(s, x)

-----------------------------------------------------------------------------
(* What makes a schema one a database could hold.                          *)

\* Every foreign key of table t has its column, and the one it refers to.
ReferencesOf(s, t) ==
    \A f \in DOMAIN s.tables[t].foreign :
       /\ HasColumn(s, t, s.tables[t].foreign[f].column)
       /\ HasColumn(s, s.tables[t].foreign[f].table, s.tables[t].foreign[f].target)

NoDanglingReference(s) == \A t \in Tables(s) : ReferencesOf(s, t)

ReferencesAreUnique(s) ==
    \A t \in Tables(s) : \A f \in DOMAIN s.tables[t].foreign :
       Referable(s, s.tables[t].foreign[f].table, s.tables[t].foreign[f].target)

KeysAreColumns(s) == \A t \in Tables(s) : ElementsOf(s.tables[t].key) \subseteq DOMAIN s.tables[t].columns

\* Every column's type is built in (0) or an enum type of the schema.
TypesAreKnown(s) ==
    \A t \in Tables(s) : \A c \in DOMAIN s.tables[t].columns :
       s.tables[t].columns[c].type \in {0} \cup Enums(s)

\* The maps and records of a schema: finite maps by name.
IsMap(m) == m = [x \in DOMAIN m |-> m[x]] /\ DOMAIN m \subseteq Nat /\ IsFiniteSet(DOMAIN m)

IsTable(d) ==
    /\ d = [columns |-> d.columns, key |-> d.key, foreign |-> d.foreign]
    /\ IsMap(d.columns) /\ IsMap(d.foreign)
    /\ d.key = [i \in DOMAIN d.key |-> d.key[i]]
    /\ \A c \in DOMAIN d.columns :
          d.columns[c] = [type |-> d.columns[c].type, nullable |-> d.columns[c].nullable,
                          unique |-> d.columns[c].unique, auto |-> d.columns[c].auto]
    /\ \A f \in DOMAIN d.foreign :
          d.foreign[f] = [column |-> d.foreign[f].column, table |-> d.foreign[f].table,
                          target |-> d.foreign[f].target, action |-> d.foreign[f].action]

IsSchema(s) ==
    /\ s = [tables |-> s.tables, enums |-> s.enums]
    /\ IsMap(s.tables) /\ \A t \in Tables(s) : IsTable(s.tables[t])
    /\ IsMap(s.enums) /\ \A e \in Enums(s) : s.enums[e] \in Seq(ElementsOf(s.enums[e]))

\* A schema a database could hold, its enum types with no variant twice.
Valid(s) ==
    /\ IsSchema(s)
    /\ NoDanglingReference(s) /\ ReferencesAreUnique(s) /\ KeysAreColumns(s) /\ TypesAreKnown(s)
    /\ 0 \notin Enums(s)
    /\ \A e \in Enums(s) : \A i, j \in DOMAIN s.enums[e] : s.enums[e][i] = s.enums[e][j] => i = j

=============================================================================
